---- MODULE Spec2Model ----
(***************************************************************************)
(* A model of the Honeycomb OpenTelemetry exporter for Go                  *)
(* (src/honeycomb/honeycomb.go, the revision at lines 440-1032):           *)
(* NewExporter with its functional options, ExportSpans / exportSpan, and  *)
(* the records they hand to the libhoney client's send calls.              *)
(*                                                                         *)
(* Conventions                                                             *)
(*  - A Go interface{} value is a record tagged with its type t; its       *)
(*    payload is in s (strings), n (numbers) or b (booleans).              *)
(*  - A Go map is a TLA+ function; a nil map and an empty map are both the *)
(*    empty function (the code only guards deletes by the nil test, and a  *)
(*    delete on a nil map is a no-op in Go).                               *)
(*  - time.Time is an integer count of milliseconds, 0 being the zero      *)
(*    time (IsZero).  time.Duration saturates after about 292 years; the   *)
(*    times drawn here stay far below that.                                *)
(*  - A byte array is a tuple of 0..255; a uint64 read big-endian from 8   *)
(*    bytes is kept as those 8 bytes, and "%016x" of it is their hex form. *)
(***************************************************************************)
EXTENDS Integers, Sequences, FiniteSets, TLC

VARIABLES
    apiKey,     \* Config.APIKey handed to NewExporter
    opts,       \* the ExporterOption list handed to NewExporter
    sds,        \* the batch the caller hands to ExportSpans
    pc,         \* position of the caller / of the running function
    oi,         \* NewExporter: index of the next option to apply
    econf,      \* NewExporter: the exporterConfig being built
    newErr,     \* NewExporter: the error it returned (NIL = nil)
    exporter,   \* the *Exporter returned (NIL = nil)
    si,         \* ExportSpans: index of the snapshot being exported
    mi,         \* exportSpan: index of the next message event
    li,         \* exportSpan: index of the next link
    ev,         \* exportSpan: the primary event under construction
    sent,       \* every event on which Send / SendPresampled was called
    hookCalls,  \* every call of the error hook
    dynCalls,   \* number of invocations of each dynamic-field function
    ret,        \* ExportSpans: its return value once it returned
    arg,        \* the byte slice of a direct call of getHoneycombTraceID
    result,     \* what that call returned (empty before the call)
    wire,       \* the wire spans handed to the decoder, one call each
    decoded,    \* what the decoder returned for them, in order
    first,      \* the exporter of an earlier NewExporter call the caller kept
    threads,    \* the goroutines that call ExportSpans concurrently, each with
                \* its batch and the local variables of its call
    UserAgentAddition,  \* the package-level variable libhoney.UserAgentAddition
    clients,    \* the libhoney clients created so far, in order
    responses,  \* the client's response channel, e.client.TxResponses()
    ctx,        \* the context handed to RunErrorLogger
    logger      \* the goroutine that runs RunErrorLogger

\* What the caller does apart from making and using one exporter.
loggerVars == <<responses, ctx, logger>>
callerVars == <<arg, result, wire, decoded, first, threads, loggerVars>>

\* The making of the exporter and its single-threaded use.
exporterVars == <<apiKey, opts, sds, pc, oi, econf, newErr, exporter, si, mi, li, ev,
                  sent, hookCalls, dynCalls, ret, UserAgentAddition, clients>>

vars == <<exporterVars, callerVars>>

NIL == [t |-> "nil", s |-> "", n |-> 0, b |-> FALSE]

(***************************************************************************)
(* Bounds of the model.                                                    *)
(***************************************************************************)
MaxBatch == 2        \* snapshots in one ExportSpans batch
MaxItems == 2        \* message events plus links of a snapshot
MaxAttrs == 2        \* attributes of a span
MaxOpts == 2         \* options handed to NewExporter
MaxSendErrors == 1   \* sends that fail during one run
MaxTime == 2         \* largest of the small timestamps (ms)

(***************************************************************************)
(* Go values.                                                              *)
(***************************************************************************)
\* Every value has the same four fields, so that any two can be compared.
Value(t, s, n, b) == [t |-> t, s |-> s, n |-> n, b |-> b]
String(s) == Value("string", s, 0, FALSE)
GoInt(n) == Value("int", "", n, FALSE)
Int32(n) == Value("int32", "", n, FALSE)
Int64(n) == Value("int64", "", n, FALSE)
Float64(n) == Value("float64", "", n, FALSE)
Bool(b) == Value("bool", "", 0, b)
SpanRefType(n) == Value("spanRefType", "", n, FALSE)

\* label.KeyValue
KeyValue(k, val) == [Key |-> k, Value |-> val]

\* The empty map.
EmptyMap == [k \in {} |-> NIL]

\* m[k] = val on a Go map.
MapSet(m, k, val) == [x \in (DOMAIN m) \cup {k} |-> IF x = k THEN val ELSE m[x]]

\* delete(m, k) for every k in ks.
MapDelete(m, ks) == [x \in (DOMAIN m) \ ks |-> m[x]]

\* for k, v := range src { dst[k] = v }
MapMerge(dst, src) ==
    [x \in (DOMAIN dst) \cup (DOMAIN src) |-> IF x \in DOMAIN src THEN src[x] ELSE dst[x]]

(***************************************************************************)
(* exporterConfig and the functional options.  An option is a closure      *)
(* over a pointer to exporterConfig; here it is a record naming its maker   *)
(* and its arguments, and ApplyOption runs the closure.  Running it gives  *)
(* a set of outcomes [c |-> config afterwards, err |-> error returned]:    *)
(* more than one only where Go's random map iteration order shows.         *)
(***************************************************************************)
Func(f) == Value("func", f, 0, FALSE)
Error(msg) == Value("error", msg, 0, FALSE)

\* exporterConfig{}
ZeroConfig ==
    [dataset |-> "", serviceName |-> "", staticFields |-> EmptyMap,
     dynamicFields |-> EmptyMap, apiURL |-> "", userAgentAddendum |-> "", onError |-> NIL]

Option(kind, name, value, m) == [kind |-> kind, name |-> name, value |-> value, m |-> m]

validateField(name) ==
    IF Len(name) = 0 THEN Error("field name must not be empty") ELSE NIL

validateDynamicField(name, f) ==
    IF Len(name) = 0 THEN Error("dynamic field name must not be empty")
    ELSE IF f = NIL THEN Error("dynamic field must have a non-nil function")
    ELSE NIL

TargetingDataset(c, name) ==
    IF Len(name) = 0
    THEN {[c |-> c, err |-> Error("dataset name must not be empty")]}
    ELSE {[c |-> [c EXCEPT !.dataset = name], err |-> NIL]}

WithServiceName(c, name) ==
    {[c |-> IF Len(name) > 0 THEN [c EXCEPT !.serviceName = name] ELSE c, err |-> NIL]}

\* WithField without the delete from the dynamic fields.
WithFieldKeepsDynamic(c, name, value) ==
    IF validateField(name) # NIL
    THEN {[c |-> c, err |-> validateField(name)]}
    ELSE {[c |-> [c EXCEPT !.staticFields = MapSet(c.staticFields, name, value)],
           err |-> NIL]}

WithField(c, name, value) ==
    IF validateField(name) # NIL
    THEN {[c |-> c, err |-> validateField(name)]}
    ELSE {[c |-> [c EXCEPT !.staticFields = MapSet(c.staticFields, name, value),
                           !.dynamicFields = MapDelete(c.dynamicFields, {name})],
           err |-> NIL]}

\* The names of m that the range loop can have stored before it returns the
\* error of an invalid entry: any set of valid entries, the order being random.
StoredBeforeError(m, bad) == SUBSET ((DOMAIN m) \ bad)

Restrict(m, ks) == [x \in ks |-> m[x]]

WithFields(c, m) ==
    LET bad == {n \in DOMAIN m : validateField(n) # NIL}
    IN  IF Cardinality(DOMAIN m) = 0
        THEN {[c |-> c, err |-> NIL]}
        ELSE IF bad # {}
        THEN {[c |-> [c EXCEPT !.staticFields = MapMerge(c.staticFields, Restrict(m, done))],
               err |-> Error("field name must not be empty")]
              : done \in StoredBeforeError(m, bad)}
        ELSE {[c |-> [c EXCEPT !.staticFields = MapMerge(c.staticFields, m),
                               !.dynamicFields = MapDelete(c.dynamicFields, DOMAIN m)],
               err |-> NIL]}

WithDynamicField(c, name, f) ==
    IF validateDynamicField(name, f) # NIL
    THEN {[c |-> c, err |-> validateDynamicField(name, f)]}
    ELSE {[c |-> [c EXCEPT !.dynamicFields = MapSet(c.dynamicFields, name, f),
                           !.staticFields = MapDelete(c.staticFields, {name})],
           err |-> NIL]}

\* WithDynamicFields without the deletes from the static fields.
WithDynamicFieldsKeepsStatic(c, m) ==
    LET bad == {n \in DOMAIN m : validateDynamicField(n, m[n]) # NIL}
    IN  IF Cardinality(DOMAIN m) = 0
        THEN {[c |-> c, err |-> NIL]}
        ELSE IF bad # {}
        THEN {[c |-> [c EXCEPT !.dynamicFields = MapMerge(c.dynamicFields, Restrict(m, done))],
               err |-> validateDynamicField(b, m[b])]
              : done \in StoredBeforeError(m, bad), b \in bad}
        ELSE {[c |-> [c EXCEPT !.dynamicFields = MapMerge(c.dynamicFields, m)],
               err |-> NIL]}

WithDynamicFields(c, m) ==
    LET bad == {n \in DOMAIN m : validateDynamicField(n, m[n]) # NIL}
    IN  IF Cardinality(DOMAIN m) = 0
        THEN {[c |-> c, err |-> NIL]}
        ELSE IF bad # {}
        THEN {[c |-> [c EXCEPT !.dynamicFields = MapMerge(c.dynamicFields, Restrict(m, done))],
               err |-> validateDynamicField(b, m[b])]
              : done \in StoredBeforeError(m, bad), b \in bad}
        ELSE {[c |-> [c EXCEPT !.dynamicFields = MapMerge(c.dynamicFields, m),
                               !.staticFields = MapDelete(c.staticFields, DOMAIN m)],
               err |-> NIL]}

WithAPIURL(c, url) ==
    IF Len(url) = 0
    THEN {[c |-> c, err |-> Error("API URL name must not be empty")]}
    ELSE {[c |-> [c EXCEPT !.apiURL = url], err |-> NIL]}

WithUserAgentAddendum(c, a) ==
    IF Len(a) = 0
    THEN {[c |-> c, err |-> Error("user agent addendum must not be empty")]}
    ELSE {[c |-> [c EXCEPT !.userAgentAddendum = a], err |-> NIL]}

CallingOnError(c, f) ==
    {[c |-> [c EXCEPT !.onError = IF f = NIL THEN Func("noop") ELSE f], err |-> NIL]}

\* o(&econf)
ApplyOption(o, c) ==
    CASE o.kind = "WithServiceName" -> WithServiceName(c, o.name)
      [] o.kind = "WithField" -> WithField(c, o.name, o.value)
      [] o.kind = "WithFields" -> WithFields(c, o.m)
      [] o.kind = "WithDynamicField" -> WithDynamicField(c, o.name, o.value)
      [] o.kind = "WithDynamicFields" -> WithDynamicFields(c, o.m)
      [] o.kind = "CallingOnError" -> CallingOnError(c, o.value)
      [] o.kind = "TargetingDataset" -> TargetingDataset(c, o.name)
      [] o.kind = "WithAPIURL" -> WithAPIURL(c, o.name)
      [] o.kind = "WithUserAgentAddendum" -> WithUserAgentAddendum(c, o.name)

(***************************************************************************)
(* NewExporter.                                                            *)
(***************************************************************************)
defaultDataset == "opentelemetry"
defaultAPIHost == "https://api.honeycomb.io/"
defaultUserAgent == "Honeycomb-OpenTelemetry-exporter"
versionStr == "0.15.0"

\* libhoney.Client: the dataset and API host of its configuration, the
\* user agent addition its transmission took from the package-level
\* variable when it was created, and the builder's static fields and
\* dynamic fields.  NewExporter hands the builder the names of two Go maps,
\* so no name repeats.
NewClient(c, userAgentAddition) ==
    [Dataset |-> IF Len(c.dataset) = 0 THEN defaultDataset ELSE c.dataset,
     APIHost |-> IF Len(c.apiURL) # 0 THEN c.apiURL ELSE defaultAPIHost,
     UserAgentAddition |-> userAgentAddition,
     data |-> c.staticFields,
     dynFields |-> c.dynamicFields]

\* What NewExporter assigns to libhoney.UserAgentAddition.
UserAgentOf(c) ==
    (IF Len(c.userAgentAddendum) = 0 THEN defaultUserAgent ELSE c.userAgentAddendum)
        \o "/" \o versionStr

\* The API key check that opens NewExporter.
NewExporterBegin ==
    /\ pc = "start"
    /\ IF Len(apiKey) = 0
       THEN /\ pc' = "failed"
            /\ newErr' = Error("API key must not be empty")
       ELSE /\ pc' = "options"
            /\ newErr' = newErr
    /\ UNCHANGED <<callerVars, UserAgentAddition, clients, apiKey, opts, sds, oi, econf, exporter, si, mi, li, ev, sent,
                   hookCalls, dynCalls, ret>>

\* NewExporterOption going on to the next option after an error.
NewExporterOptionIgnoringError ==
    /\ pc = "options"
    /\ oi <= Len(opts)
    /\ \E out \in ApplyOption(opts[oi], econf) :
         econf' = out.c
    /\ pc' = "options"
    /\ newErr' = newErr
    /\ oi' = oi + 1
    /\ UNCHANGED <<callerVars, UserAgentAddition, clients, apiKey, opts, sds, exporter, si,
                   mi, li, ev, sent, hookCalls, dynCalls, ret>>

\* One iteration of "for _, o := range opts".
NewExporterOption ==
    /\ pc = "options"
    /\ oi <= Len(opts)
    /\ \E out \in ApplyOption(opts[oi], econf) :
         /\ econf' = out.c
         /\ IF out.err # NIL
            THEN /\ pc' = "failed"
                 /\ newErr' = out.err
                 /\ oi' = oi
            ELSE /\ pc' = "options"
                 /\ newErr' = newErr
                 /\ oi' = oi + 1
    /\ UNCHANGED <<callerVars, UserAgentAddition, clients, apiKey, opts, sds, exporter, si, mi, li, ev, sent, hookCalls,
                   dynCalls, ret>>

\* After the options: the client is made, the fields are copied into it and
\* the Exporter is returned.
NewExporterFinish ==
    /\ pc = "options"
    /\ oi > Len(opts)
    /\ UserAgentAddition' = UserAgentOf(econf)
    /\ exporter' = [client |-> NewClient(econf, UserAgentAddition'),
                    serviceName |-> econf.serviceName,
                    onError |-> IF econf.onError = NIL THEN Func("log") ELSE econf.onError]
    /\ clients' = Append(clients, exporter'.client)
    /\ pc' = "ready"
    /\ UNCHANGED <<callerVars, apiKey, opts, sds, oi, econf, newErr, si, mi, li, ev, sent,
                   hookCalls, dynCalls, ret>>

(***************************************************************************)
(* Identifiers and their display forms.                                    *)
(***************************************************************************)
traceIDShortLength == 8
traceIDLongLength == 16

HexChars == <<"0", "1", "2", "3", "4", "5", "6", "7", "8", "9", "a", "b", "c", "d", "e", "f">>

HexByte(b) == HexChars[(b \div 16) + 1] \o HexChars[(b % 16) + 1]

\* hex.EncodeToString, fmt.Sprintf("%x", bytes), SpanID.String()
RECURSIVE HexEncode(_)
HexEncode(bs) == IF bs = <<>> THEN "" ELSE HexByte(Head(bs)) \o HexEncode(Tail(bs))

AllZero(bs) == \A i \in 1..Len(bs) : bs[i] = 0

\* A call that panics returns this in place of its value.
Panic == <<0 - 1>>

\* binary.BigEndian.Uint64(b): the first 8 bytes; it panics on fewer.
BigEndianUint64(b) == IF Len(b) < 8 THEN Panic ELSE SubSeq(b, 1, 8)

\* fmt.Sprintf("%016x", u) of a uint64 kept as its 8 bytes; a panic on the
\* way to u never reaches the call.
Sprintf016x(u) == IF u = Panic THEN "panic" ELSE HexEncode(u)

\* getHoneycombTraceID without the guard for fewer than 8 bytes.
getHoneycombTraceIDUnguarded(traceID) ==
    IF Len(traceID) = traceIDLongLength
    THEN LET low == BigEndianUint64(SubSeq(traceID, traceIDShortLength + 1, Len(traceID)))
             high == BigEndianUint64(SubSeq(traceID, 1, traceIDShortLength))
         IN  IF ~AllZero(high)
             THEN Sprintf016x(high) \o Sprintf016x(low)
             ELSE Sprintf016x(low)
    ELSE Sprintf016x(BigEndianUint64(traceID))

\* getHoneycombTraceID reading the last 8 bytes of a slice that is not 16
\* bytes long.
getHoneycombTraceIDLowBytes(traceID) ==
    IF Len(traceID) < traceIDShortLength
    THEN HexEncode(traceID)
    ELSE IF Len(traceID) = traceIDLongLength
    THEN LET low == BigEndianUint64(SubSeq(traceID, traceIDShortLength + 1, Len(traceID)))
             high == BigEndianUint64(SubSeq(traceID, 1, traceIDShortLength))
         IN  IF ~AllZero(high)
             THEN Sprintf016x(high) \o Sprintf016x(low)
             ELSE Sprintf016x(low)
    ELSE Sprintf016x(BigEndianUint64(SubSeq(traceID, Len(traceID) - 7, Len(traceID))))

getHoneycombTraceID(traceID) ==
    IF Len(traceID) < traceIDShortLength
    THEN HexEncode(traceID)
    ELSE IF Len(traceID) = traceIDLongLength
    THEN LET low == BigEndianUint64(SubSeq(traceID, traceIDShortLength + 1, Len(traceID)))
             high == BigEndianUint64(SubSeq(traceID, 1, traceIDShortLength))
         IN  IF ~AllZero(high)
             THEN Sprintf016x(high) \o Sprintf016x(low)
             ELSE Sprintf016x(low)
    ELSE Sprintf016x(BigEndianUint64(traceID))

\* A direct call of getHoneycombTraceID(arg).
GetHoneycombTraceID ==
    /\ result = <<>>
    /\ result' = <<getHoneycombTraceID(arg)>>
    /\ UNCHANGED <<exporterVars, arg, wire, decoded, first, threads, loggerVars>>

(***************************************************************************)
(* The span context the decoder of wire spans builds from the identifiers  *)
(* of a wire span (src/honeycomb/translator.go).  A nil byte slice and an  *)
(* empty one are both the empty tuple: copy moves nothing from either.     *)
(***************************************************************************)
\* copy(dst[:], src) into a zeroed array of n bytes.
CopyInto(n, src) == [i \in 1..n |-> IF i <= Len(src) THEN src[i] ELSE 0]

spanContext(traceID, spanID) ==
    [TraceID |-> CopyInto(16, traceID), SpanID |-> CopyInto(8, spanID)]

(***************************************************************************)
(* libhoney events.  An event is [Timestamp, data]; data maps field names  *)
(* to values.                                                              *)
(***************************************************************************)
\* time.Now(), the Timestamp a new event starts with.
Now == 0 - 1

\* What the dynamic-field function f returns when it is invoked for the
\* n-th event built: the functions drawn here read a clock that ticks
\* once per event.
DynValue(f, n) == Value("dyn", f.s, n, FALSE)

\* Number of events built so far: those sent, and the primary event of the
\* snapshot being exported.
Built == Len(sent) + (IF pc = "exportSpan" THEN 1 ELSE 0)

\* NewEvent handing out the values the functions returned for the first event.
NewEventDynamicOnce(client, n) ==
    [Timestamp |-> Now,
     data |-> MapMerge(client.data,
                       [k \in DOMAIN client.dynFields |-> DynValue(client.dynFields[k], 1)])]

\* client.NewEvent(): the builder's static fields, then one invocation of
\* every dynamic-field function.
NewEvent(client, n) ==
    [Timestamp |-> Now,
     data |-> MapMerge(client.data,
                       [k \in DOMAIN client.dynFields |-> DynValue(client.dynFields[k], n)])]

\* The invocations of dynamic-field functions one NewEvent makes.
CallsAfterNewEvent(client, calls) ==
    [f \in DOMAIN calls |->
        calls[f] + Cardinality({k \in DOMAIN client.dynFields : client.dynFields[k].s = f})]

\* ev.AddField(key, val)
AddField(e, key, val) == [e EXCEPT !.data = MapSet(e.data, key, val)]

\* The zero value test of the json "omitempty" option.
isEmptyValue(val) ==
    CASE val.t = "string" -> val.s = ""
      [] val.t = "bool" -> val.b = FALSE
      [] val.t \in {"int", "int32", "int64", "float64", "spanRefType"} -> val.n = 0
      [] OTHER -> FALSE

\* One field of a struct handed to ev.Add: its json name, its value, and
\* whether its tag says omitempty.
StructField(name, val, omitempty) == [name |-> name, val |-> val, omitempty |-> omitempty]

\* ev.Add(aStruct): every field goes in under its json name, except an
\* omitempty field holding its zero value, which is skipped.
RECURSIVE Add(_, _)
Add(e, fields) ==
    IF fields = <<>> THEN e
    ELSE LET f == Head(fields)
         IN  Add(IF f.omitempty /\ isEmptyValue(f.val) THEN e ELSE AddField(e, f.name, f.val),
                 Tail(fields))

RECURSIVE transcribeAttributesTo(_, _)
transcribeAttributesTo(e, attrs) ==
    IF attrs = <<>> THEN e
    ELSE transcribeAttributesTo(AddField(e, Head(attrs).Key, Head(attrs).Value), Tail(attrs))

(***************************************************************************)
(* honeycombSpan and the three record shapes.                              *)
(***************************************************************************)
codesUnset == 0
codesError == 1
codesOk == 2

spanRefTypeChildOf == 0

\* DurationMilli of honeycombSpan.
DurationMilli(start, end) == IF start # 0 /\ end # 0 THEN end - start ELSE 0

initializedParentID == <<0, 0, 0, 0, 0, 0, 0, 0>>

\* honeycombSpan without the test for a span that names itself as parent.
honeycombSpanSelfParent(s) ==
    [TraceID |-> getHoneycombTraceID(s.SpanContext.TraceID),
     ID |-> HexEncode(s.SpanContext.SpanID),
     Name |-> s.Name,
     HasRemoteParent |-> s.HasRemoteParent,
     ParentID |-> IF s.ParentSpanID # initializedParentID
                  THEN HexEncode(s.ParentSpanID) ELSE "",
     DurationMilli |-> DurationMilli(s.StartTime, s.EndTime),
     Status |-> "",
     Error |-> (s.StatusCode = codesError)]

\* The span struct honeycombSpan returns.
honeycombSpan(s) ==
    [TraceID |-> getHoneycombTraceID(s.SpanContext.TraceID),
     ID |-> HexEncode(s.SpanContext.SpanID),
     Name |-> s.Name,
     HasRemoteParent |-> s.HasRemoteParent,
     ParentID |-> IF s.ParentSpanID # s.SpanContext.SpanID
                     /\ s.ParentSpanID # initializedParentID
                  THEN HexEncode(s.ParentSpanID) ELSE "",
     DurationMilli |-> DurationMilli(s.StartTime, s.EndTime),
     Status |-> "",
     Error |-> (s.StatusCode = codesError)]

\* spanStruct with the omitempty option missing from the error field.
spanStructErrorAlways(hc) ==
    << StructField("trace.trace_id", String(hc.TraceID), FALSE),
       StructField("name", String(hc.Name), FALSE),
       StructField("trace.span_id", String(hc.ID), FALSE),
       StructField("trace.parent_id", String(hc.ParentID), TRUE),
       StructField("duration_ms", Float64(hc.DurationMilli), FALSE),
       StructField("response.status_code", String(hc.Status), TRUE),
       StructField("error", Bool(hc.Error), FALSE),
       StructField("has_remote_parent", Bool(hc.HasRemoteParent), FALSE) >>

\* The json tags of the span struct.
spanStruct(hc) ==
    << StructField("trace.trace_id", String(hc.TraceID), FALSE),
       StructField("name", String(hc.Name), FALSE),
       StructField("trace.span_id", String(hc.ID), FALSE),
       StructField("trace.parent_id", String(hc.ParentID), TRUE),
       StructField("duration_ms", Float64(hc.DurationMilli), FALSE),
       StructField("response.status_code", String(hc.Status), TRUE),
       StructField("error", Bool(hc.Error), TRUE),
       StructField("has_remote_parent", Bool(hc.HasRemoteParent), FALSE) >>

\* The spanEvent literal exportSpan builds for message event a of data.
spanEvent(data, a) ==
    << StructField("name", String(a.Name), FALSE),
       StructField("trace.trace_id", String(getHoneycombTraceID(data.SpanContext.TraceID)), FALSE),
       StructField("trace.parent_id", String(HexEncode(data.SpanContext.SpanID)), TRUE),
       StructField("trace.parent_name", String(data.Name), TRUE),
       StructField("meta.annotation_type", String("span_event"), FALSE) >>

\* The link literal exportSpan builds for spanLink of data.
link(data, spanLink) ==
    << StructField("trace.trace_id", String(getHoneycombTraceID(data.SpanContext.TraceID)), FALSE),
       StructField("trace.parent_id", String(HexEncode(data.SpanContext.SpanID)), TRUE),
       StructField("trace.link.trace_id", String(getHoneycombTraceID(spanLink.TraceID)), FALSE),
       StructField("trace.link.span_id", String(HexEncode(spanLink.SpanID)), FALSE),
       StructField("meta.annotation_type", String("link"), FALSE),
       StructField("ref_type", SpanRefType(spanRefTypeChildOf), TRUE) >>

\* applyResourceAttributes adding the service name before the resource
\* attributes.
applyResourceAttributesServiceFirst(e, data, serviceName) ==
    LET withService == IF Len(serviceName) # 0
                       THEN AddField(e, "service_name", String(serviceName))
                       ELSE e
    IN  IF data.Resource.present
        THEN transcribeAttributesTo(withService, data.Resource.attrs)
        ELSE withService

applyResourceAttributes(e, data, serviceName) ==
    LET withResource == IF data.Resource.present
                        THEN transcribeAttributesTo(e, data.Resource.attrs)
                        ELSE e
    IN  IF Len(serviceName) # 0
        THEN AddField(withResource, "service_name", String(serviceName))
        ELSE withResource

transcribeLayeredAttributesTo(e, data, serviceName, attrs) ==
    transcribeAttributesTo(applyResourceAttributes(e, data, serviceName), attrs)

\* The primary event as exportSpan leaves it before the two loops.
PrimaryEventBegun(client, n, data, serviceName) ==
    Add([applyResourceAttributes(NewEvent(client, n), data, serviceName)
            EXCEPT !.Timestamp = data.StartTime],
        spanStruct(honeycombSpan(data)))

\* MessageEventRecord with the event's attributes written after the struct.
MessageEventRecordAttributesLast(client, n, data, serviceName, a) ==
    transcribeAttributesTo(
        Add([applyResourceAttributes(NewEvent(client, n), data, serviceName)
                EXCEPT !.Timestamp = a.Time],
            spanEvent(data, a)),
        a.Attributes)

\* MessageEventRecord built on a copy of the span's attributes.
MessageEventRecordWithSpanAttributes(client, n, data, serviceName, a) ==
    Add([transcribeLayeredAttributesTo(
             transcribeAttributesTo(NewEvent(client, n), data.Attributes),
             data, serviceName, a.Attributes)
            EXCEPT !.Timestamp = a.Time],
        spanEvent(data, a))

\* The event built for one message event.
MessageEventRecord(client, n, data, serviceName, a) ==
    Add([transcribeLayeredAttributesTo(NewEvent(client, n), data, serviceName, a.Attributes)
            EXCEPT !.Timestamp = a.Time],
        spanEvent(data, a))

\* LinkRecord with the link's attributes written after the struct.
LinkRecordAttributesLast(client, n, data, serviceName, spanLink) ==
    transcribeAttributesTo(
        Add(applyResourceAttributes(NewEvent(client, n), data, serviceName),
            link(data, spanLink)),
        spanLink.Attributes)

\* The event built for one link.
LinkRecord(client, n, data, serviceName, spanLink) ==
    Add(transcribeLayeredAttributesTo(NewEvent(client, n), data, serviceName, spanLink.Attributes),
        link(data, spanLink))

\* PrimaryEventFinished with the status fields added before the span
\* attributes.
PrimaryEventStatusFirst(e, data) ==
    transcribeAttributesTo(
        AddField(AddField(e, "status.code", Int32(data.StatusCode)),
                 "status.message", String(data.StatusMessage)),
        data.Attributes)

\* PrimaryEventFinished with the span attributes left off the record.
PrimaryEventWithoutAttributes(e, data) ==
    AddField(AddField(e, "status.code", Int32(data.StatusCode)),
             "status.message", String(data.StatusMessage))

\* The primary event after the span attributes and the status fields.
PrimaryEventFinished(e, data) ==
    AddField(AddField(transcribeAttributesTo(e, data.Attributes),
                      "status.code", Int32(data.StatusCode)),
             "status.message", String(data.StatusMessage))

(***************************************************************************)
(* ExportSpans and exportSpan.  A send is one step: the libhoney call      *)
(* either returns nil or returns an error, and the model keeps every event *)
(* on which Send or SendPresampled was called, with what the call          *)
(* returned.                                                               *)
(***************************************************************************)
NoEvent == [Timestamp |-> 0, data |-> EmptyMap]
NoExporter == [client |-> [Dataset |-> "", APIHost |-> "", UserAgentAddition |-> "",
                           data |-> EmptyMap, dynFields |-> EmptyMap],
               serviceName |-> "", onError |-> NIL]

\* ExportSpans has not returned.
Pending == Value("pending", "", 0, FALSE)

\* The error the n-th send call returns when it fails.
SendError(n) == Value("error", "send", n, FALSE)

Failed(log) == {i \in 1..Len(log) : log[i].err # NIL}

\* What a send call may return: nil, or an error while the run's failures
\* are below the bound.
SendResults ==
    {NIL} \cup (IF Cardinality(Failed(sent)) < MaxSendErrors
                THEN {SendError(Len(sent) + 1)} ELSE {})

\* Sending with the error check dropped: the hook is never called.
SendingUnreported(kind, idx, e, err) ==
    /\ sent' = Append(sent, [kind |-> kind, span |-> si, idx |-> idx,
                             Timestamp |-> e.Timestamp, data |-> e.data, err |-> err])
    /\ hookCalls' = hookCalls

\* event.Send() / event.SendPresampled() returning err, and the
\* "if err != nil { e.onError(err) }" that follows it.
Sending(kind, idx, e, err) ==
    /\ sent' = Append(sent, [kind |-> kind, span |-> si, idx |-> idx,
                             Timestamp |-> e.Timestamp, data |-> e.data, err |-> err])
    /\ hookCalls' = IF err # NIL
                    THEN Append(hookCalls, [hook |-> exporter.onError, err |-> err])
                    ELSE hookCalls

\* The caller invokes ExportSpans(ctx, sds).
ExportSpans ==
    /\ pc = "ready"
    /\ pc' = "ExportSpans"
    /\ si' = 1
    /\ UNCHANGED <<callerVars, UserAgentAddition, clients, apiKey, opts, sds, oi, econf, newErr, exporter, mi, li, ev, sent,
                   hookCalls, dynCalls, ret>>

\* exportSpan up to its first loop: the primary event is created and gets
\* the resource attributes, the timestamp and the span struct.
ExportSpanBegin ==
    /\ pc = "ExportSpans"
    /\ si <= Len(sds)
    /\ ev' = PrimaryEventBegun(exporter.client, Built + 1, sds[si], exporter.serviceName)
    /\ dynCalls' = CallsAfterNewEvent(exporter.client, dynCalls)
    /\ mi' = 1
    /\ li' = 1
    /\ pc' = "exportSpan"
    /\ UNCHANGED <<callerVars, UserAgentAddition, clients, apiKey, opts, sds, oi, econf, newErr, exporter, si, sent, hookCalls, ret>>

\* SendMessageEvent leaving the loop when a send fails.
SendMessageEventBreak ==
    /\ pc = "exportSpan"
    /\ mi <= Len(sds[si].MessageEvents)
    /\ \E err \in SendResults :
         /\ Sending("span_event", mi,
                    MessageEventRecord(exporter.client, Built + 1, sds[si],
                                       exporter.serviceName, sds[si].MessageEvents[mi]),
                    err)
         /\ mi' = IF err # NIL THEN Len(sds[si].MessageEvents) + 1 ELSE mi + 1
    /\ dynCalls' = CallsAfterNewEvent(exporter.client, dynCalls)
    /\ UNCHANGED <<callerVars, UserAgentAddition, clients, apiKey, opts, sds, pc, oi, econf, newErr, exporter, si, li, ev, ret>>

\* One iteration of "for _, a := range data.MessageEvents".
SendMessageEvent ==
    /\ pc = "exportSpan"
    /\ mi <= Len(sds[si].MessageEvents)
    /\ \E err \in SendResults :
         Sending("span_event", mi,
                 MessageEventRecord(exporter.client, Built + 1, sds[si],
                                    exporter.serviceName, sds[si].MessageEvents[mi]),
                 err)
    /\ dynCalls' = CallsAfterNewEvent(exporter.client, dynCalls)
    /\ mi' = mi + 1
    /\ UNCHANGED <<callerVars, UserAgentAddition, clients, apiKey, opts, sds, pc, oi, econf, newErr, exporter, si, li, ev, ret>>

\* SendLink with the link loop placed before the message-event loop.
SendLinkFirst ==
    /\ pc = "exportSpan"
    /\ mi = 1
    /\ li <= Len(sds[si].Links)
    /\ \E err \in SendResults :
         Sending("link", li,
                 LinkRecord(exporter.client, Built + 1, sds[si],
                            exporter.serviceName, sds[si].Links[li]),
                 err)
    /\ dynCalls' = CallsAfterNewEvent(exporter.client, dynCalls)
    /\ li' = li + 1
    /\ UNCHANGED <<callerVars, UserAgentAddition, clients, apiKey, opts, sds, pc, oi, econf, newErr, exporter, si, mi, ev, ret>>

\* One iteration of "for _, spanLink := range data.Links".
SendLink ==
    /\ pc = "exportSpan"
    /\ mi > Len(sds[si].MessageEvents)
    /\ li <= Len(sds[si].Links)
    /\ \E err \in SendResults :
         Sending("link", li,
                 LinkRecord(exporter.client, Built + 1, sds[si],
                            exporter.serviceName, sds[si].Links[li]),
                 err)
    /\ dynCalls' = CallsAfterNewEvent(exporter.client, dynCalls)
    /\ li' = li + 1
    /\ UNCHANGED <<callerVars, UserAgentAddition, clients, apiKey, opts, sds, pc, oi, econf, newErr, exporter, si, mi, ev, ret>>

\* SendPrimary with the status code added to the client's fields as well
\* (e.client.AddField where the code has ev.AddField).
SendPrimaryOnClient ==
    /\ pc = "exportSpan"
    /\ mi > Len(sds[si].MessageEvents)
    /\ li > Len(sds[si].Links)
    /\ \E err \in SendResults :
         Sending("span", 0, PrimaryEventFinished(ev, sds[si]), err)
    /\ exporter' = [exporter EXCEPT
                       !.client.data = MapSet(@, "status.code", Int32(sds[si].StatusCode))]
    /\ ev' = NoEvent
    /\ si' = si + 1
    /\ pc' = "ExportSpans"
    /\ UNCHANGED <<callerVars, UserAgentAddition, clients, apiKey, opts, sds, oi, econf, newErr,
                   mi, li, dynCalls, ret>>

\* The end of exportSpan: the span attributes and the status fields go on
\* the primary event, it is sent, and ExportSpans moves to the next span.
SendPrimary ==
    /\ pc = "exportSpan"
    /\ mi > Len(sds[si].MessageEvents)
    /\ li > Len(sds[si].Links)
    /\ \E err \in SendResults :
         Sending("span", 0, PrimaryEventFinished(ev, sds[si]), err)
    /\ ev' = NoEvent
    /\ si' = si + 1
    /\ pc' = "ExportSpans"
    /\ UNCHANGED <<callerVars, UserAgentAddition, clients, apiKey, opts, sds, oi, econf, newErr, exporter, mi, li, dynCalls, ret>>

\* ExportSpansReturn with the loop ending one snapshot early.
ExportSpansReturnEarly ==
    /\ pc = "ExportSpans"
    /\ si >= Len(sds)
    /\ ret' = NIL
    /\ pc' = "done"
    /\ UNCHANGED <<callerVars, UserAgentAddition, clients, apiKey, opts, sds, oi, econf, newErr, exporter, si, mi, li, ev, sent,
                   hookCalls, dynCalls>>

\* ExportSpans returns nil after the last snapshot.
ExportSpansReturn ==
    /\ pc = "ExportSpans"
    /\ si > Len(sds)
    /\ ret' = NIL
    /\ pc' = "done"
    /\ UNCHANGED <<callerVars, UserAgentAddition, clients, apiKey, opts, sds, oi, econf, newErr, exporter, si, mi, li, ev, sent,
                   hookCalls, dynCalls>>

(***************************************************************************)
(* ExportSpans called concurrently.  Each goroutine runs the code above on *)
(* its own batch with its own local variables; what the goroutines share   *)
(* is the exporter, which they only read, and the client's sender behind   *)
(* Send and SendPresampled, which is safe for concurrent use: a send is    *)
(* one step.                                                               *)
(***************************************************************************)
\* What a goroutine's call of ExportSpans leaves alone.
unsharedVars == <<apiKey, opts, sds, pc, oi, econf, newErr, exporter, si, mi, li, ev, ret,
                  UserAgentAddition, clients, arg, result, wire, decoded, first, loggerVars>>

\* Number of events built so far by all goroutines.
BuiltByThreads ==
    Len(sent) + Cardinality({t \in DOMAIN threads : threads[t].pc = "exportSpan"})

\* The snapshot goroutine t is exporting.
Current(t) == threads[t].sds[threads[t].si]

\* Goroutine t's event.Send() / event.SendPresampled() returning err, and
\* the hook call that follows an error.
ThreadSending(t, kind, idx, e, err) ==
    /\ sent' = Append(sent, [kind |-> kind, span |-> threads[t].si, idx |-> idx,
                             Timestamp |-> e.Timestamp, data |-> e.data, err |-> err,
                             thread |-> t])
    /\ hookCalls' = IF err # NIL
                    THEN Append(hookCalls, [hook |-> exporter.onError, err |-> err])
                    ELSE hookCalls

\* Goroutine t calls ExportSpans(ctx, its batch).
ThreadExportSpans(t) ==
    /\ pc = "ready"
    /\ threads[t].pc = "idle"
    /\ threads' = [threads EXCEPT ![t].pc = "ExportSpans", ![t].si = 1]
    /\ UNCHANGED <<unsharedVars, sent, hookCalls, dynCalls>>

ThreadExportSpanBegin(t) ==
    /\ threads[t].pc = "ExportSpans"
    /\ threads[t].si <= Len(threads[t].sds)
    /\ threads' = [threads EXCEPT
                      ![t].ev = PrimaryEventBegun(exporter.client, BuiltByThreads + 1,
                                                  Current(t), exporter.serviceName),
                      ![t].mi = 1,
                      ![t].li = 1,
                      ![t].pc = "exportSpan"]
    /\ dynCalls' = CallsAfterNewEvent(exporter.client, dynCalls)
    /\ UNCHANGED <<unsharedVars, sent, hookCalls>>

ThreadSendMessageEvent(t) ==
    /\ threads[t].pc = "exportSpan"
    /\ threads[t].mi <= Len(Current(t).MessageEvents)
    /\ \E err \in SendResults :
         ThreadSending(t, "span_event", threads[t].mi,
                       MessageEventRecord(exporter.client, BuiltByThreads + 1, Current(t),
                                          exporter.serviceName,
                                          Current(t).MessageEvents[threads[t].mi]),
                       err)
    /\ dynCalls' = CallsAfterNewEvent(exporter.client, dynCalls)
    /\ threads' = [threads EXCEPT ![t].mi = @ + 1]
    /\ UNCHANGED unsharedVars

ThreadSendLink(t) ==
    /\ threads[t].pc = "exportSpan"
    /\ threads[t].mi > Len(Current(t).MessageEvents)
    /\ threads[t].li <= Len(Current(t).Links)
    /\ \E err \in SendResults :
         ThreadSending(t, "link", threads[t].li,
                       LinkRecord(exporter.client, BuiltByThreads + 1, Current(t),
                                  exporter.serviceName, Current(t).Links[threads[t].li]),
                       err)
    /\ dynCalls' = CallsAfterNewEvent(exporter.client, dynCalls)
    /\ threads' = [threads EXCEPT ![t].li = @ + 1]
    /\ UNCHANGED unsharedVars

\* ThreadSendPrimary sending the event another goroutine began last, as it
\* would with the event kept in the exporter and not in a local variable.
ThreadSendPrimaryShared(t) ==
    /\ threads[t].pc = "exportSpan"
    /\ threads[t].mi > Len(Current(t).MessageEvents)
    /\ threads[t].li > Len(Current(t).Links)
    /\ LET others == {u \in DOMAIN threads : u # t /\ threads[u].pc = "exportSpan"}
           u == IF others = {} THEN t ELSE CHOOSE o \in others : TRUE
       IN  \E err \in SendResults :
               ThreadSending(t, "span", 0, PrimaryEventFinished(threads[u].ev, Current(t)), err)
    /\ threads' = [threads EXCEPT ![t].ev = NoEvent, ![t].si = @ + 1, ![t].pc = "ExportSpans"]
    /\ UNCHANGED <<unsharedVars, dynCalls>>

ThreadSendPrimary(t) ==
    /\ threads[t].pc = "exportSpan"
    /\ threads[t].mi > Len(Current(t).MessageEvents)
    /\ threads[t].li > Len(Current(t).Links)
    /\ \E err \in SendResults :
         ThreadSending(t, "span", 0, PrimaryEventFinished(threads[t].ev, Current(t)), err)
    /\ threads' = [threads EXCEPT ![t].ev = NoEvent, ![t].si = @ + 1, ![t].pc = "ExportSpans"]
    /\ UNCHANGED <<unsharedVars, dynCalls>>

ThreadExportSpansReturn(t) ==
    /\ threads[t].pc = "ExportSpans"
    /\ threads[t].si > Len(threads[t].sds)
    /\ threads' = [threads EXCEPT ![t].ret = NIL, ![t].pc = "done"]
    /\ UNCHANGED <<unsharedVars, sent, hookCalls, dynCalls>>

NextThreads ==
    \/ NewExporterBegin
    \/ NewExporterOption
    \/ NewExporterFinish
    \/ \E t \in DOMAIN threads : ThreadExportSpans(t)
    \/ \E t \in DOMAIN threads : ThreadExportSpanBegin(t)
    \/ \E t \in DOMAIN threads : ThreadSendMessageEvent(t)
    \/ \E t \in DOMAIN threads : ThreadSendLink(t)
    \/ \E t \in DOMAIN threads : ThreadSendPrimary(t)
    \/ \E t \in DOMAIN threads : ThreadExportSpansReturn(t)

(***************************************************************************)
(* RunErrorLogger and Shutdown.  The response channel belongs to the       *)
(* libhoney client: the transmission puts one response on it for every     *)
(* event it took, Close closes it, and a receive from a closed channel     *)
(* yields what is still buffered before it reports !ok.                    *)
(***************************************************************************)
\* The error in the response to the k-th event sent.
TxError(k) == Value("error", "tx", k, FALSE)

\* No response yet, a context that is not canceled, and no logger running.
NoLogger ==
    /\ responses = [queue |-> <<>>, closed |-> FALSE, handled |-> 0, put |-> <<>>]
    /\ ctx = [done |-> FALSE, seen |-> 0]
    /\ logger = [pc |-> "idle"]

\* The transmission handles the next event sent: an event the send call
\* took gets a response, with or without an error.
TxResponse ==
    /\ ~responses.closed
    /\ responses.handled < Len(sent)
    /\ \E err \in {NIL, TxError(responses.handled + 1)} :
          responses' =
             IF sent[responses.handled + 1].err = NIL
             THEN [responses EXCEPT !.handled = @ + 1,
                                    !.queue = Append(@, [Err |-> err]),
                                    !.put = Append(@, [Err |-> err])]
             ELSE [responses EXCEPT !.handled = @ + 1]
    /\ UNCHANGED <<exporterVars, arg, result, wire, decoded, first, threads, ctx, logger>>

\* The caller cancels the context it gave to RunErrorLogger; seen keeps
\* how many responses the channel had been given by then.
Cancel ==
    /\ ~ctx.done
    /\ ctx' = [done |-> TRUE, seen |-> Len(responses.put)]
    /\ UNCHANGED <<exporterVars, arg, result, wire, decoded, first, threads, responses, logger>>

\* Shutdown(ctx): e.client.Close(), which closes the response channel.
Shutdown ==
    /\ pc \in {"ready", "done"}
    /\ ~responses.closed
    /\ responses' = [responses EXCEPT !.closed = TRUE]
    /\ UNCHANGED <<exporterVars, arg, result, wire, decoded, first, threads, ctx, logger>>

\* go e.RunErrorLogger(ctx): responses := e.client.TxResponses().
RunErrorLogger ==
    /\ pc \notin {"start", "options", "failed"}
    /\ logger.pc = "idle"
    /\ logger' = [logger EXCEPT !.pc = "select"]
    /\ UNCHANGED <<exporterVars, arg, result, wire, decoded, first, threads, responses, ctx>>

\* LoggerReceive calling the hook for every response.
LoggerReceiveAll ==
    /\ logger.pc = "select"
    /\ responses.queue # <<>>
    /\ responses' = [responses EXCEPT !.queue = Tail(@)]
    /\ hookCalls' = Append(hookCalls, [hook |-> exporter.onError,
                                       err |-> Head(responses.queue).Err])
    /\ UNCHANGED <<apiKey, opts, sds, pc, oi, econf, newErr, exporter, si, mi, li, ev, sent,
                   dynCalls, ret, UserAgentAddition, clients, arg, result, wire, decoded,
                   first, threads, ctx, logger>>

\* case r, ok := <-responses with ok: the hook is called when r.Err != nil.
LoggerReceive ==
    /\ logger.pc = "select"
    /\ responses.queue # <<>>
    /\ responses' = [responses EXCEPT !.queue = Tail(@)]
    /\ hookCalls' = IF Head(responses.queue).Err # NIL
                    THEN Append(hookCalls, [hook |-> exporter.onError,
                                            err |-> Head(responses.queue).Err])
                    ELSE hookCalls
    /\ UNCHANGED <<apiKey, opts, sds, pc, oi, econf, newErr, exporter, si, mi, li, ev, sent,
                   dynCalls, ret, UserAgentAddition, clients, arg, result, wire, decoded,
                   first, threads, ctx, logger>>

\* case r, ok := <-responses with !ok: return.
LoggerClosed ==
    /\ logger.pc = "select"
    /\ responses.queue = <<>>
    /\ responses.closed
    /\ logger' = [logger EXCEPT !.pc = "returned"]
    /\ UNCHANGED <<exporterVars, arg, result, wire, decoded, first, threads, responses, ctx>>

\* LoggerDone taking the second case of the select whether or not the
\* context is done.
LoggerDoneAnyway ==
    /\ logger.pc = "select"
    /\ logger' = [logger EXCEPT !.pc = "returned"]
    /\ UNCHANGED <<exporterVars, arg, result, wire, decoded, first, threads, responses, ctx>>

\* case <-ctx.Done(): return.
LoggerDone ==
    /\ logger.pc = "select"
    /\ ctx.done
    /\ logger' = [logger EXCEPT !.pc = "returned"]
    /\ UNCHANGED <<exporterVars, arg, result, wire, decoded, first, threads, responses, ctx>>

Next ==
    \/ NewExporterBegin
    \/ NewExporterOption
    \/ NewExporterFinish
    \/ ExportSpans
    \/ ExportSpanBegin
    \/ SendMessageEvent
    \/ SendLink
    \/ SendPrimary
    \/ ExportSpansReturn

\* An exporter in use while its error logger runs.
NextLogger ==
    \/ NewExporterBegin
    \/ NewExporterOption
    \/ NewExporterFinish
    \/ ExportSpans
    \/ ExportSpanBegin
    \/ SendMessageEvent
    \/ SendLink
    \/ SendPrimary
    \/ ExportSpansReturn
    \/ TxResponse
    \/ Cancel
    \/ Shutdown
    \/ RunErrorLogger
    \/ LoggerReceive
    \/ LoggerClosed
    \/ LoggerDone

(***************************************************************************)
(* A second exporter in the same process.                                  *)
(***************************************************************************)
\* The inputs of a second call of NewExporter in the process.
SecondOptions ==
    {Option("WithServiceName", "other", NIL, EmptyMap),
     Option("WithField", "a", Value("int", "", 2, FALSE), EmptyMap),
     Option("TargetingDataset", "dataset", NIL, EmptyMap),
     Option("WithUserAgentAddendum", "agent", NIL, EmptyMap),
     Option("CallingOnError", "", Func("hook"), EmptyMap)}

SecondOptionLists == UNION {[1..k -> SecondOptions] : k \in 0..MaxOpts}

\* The process keeps the exporter it has and calls NewExporter once more,
\* with a key and options of its choice.
NewExporterAgain ==
    /\ pc = "ready"
    /\ first = NoExporter
    /\ first' = exporter
    /\ apiKey' \in {"", "key2"}
    /\ opts' \in SecondOptionLists
    /\ pc' = "start"
    /\ oi' = 1
    /\ econf' = ZeroConfig
    /\ newErr' = NIL
    /\ exporter' = NoExporter
    /\ UNCHANGED <<sds, si, mi, li, ev, sent, hookCalls, dynCalls, ret, UserAgentAddition,
                   clients, arg, result, wire, decoded, threads, loggerVars>>

\* A process that makes two exporters.
NextTwo ==
    \/ NewExporterBegin
    \/ NewExporterOption
    \/ NewExporterFinish
    \/ NewExporterAgain

(***************************************************************************)
(* The inputs: the API key, the option list and the batch are the caller's *)
(* and are fixed when a run starts.                                        *)
(***************************************************************************)
\* Sequences over S of length at most n.
SeqsUpTo(S, n) == UNION {[1..k -> S] : k \in 0..n}

TraceIDA == <<1, 2, 3, 4, 5, 6, 7, 8, 9, 10, 11, 12, 13, 14, 15, 16>>
TraceIDPadded == <<0, 0, 0, 0, 0, 0, 0, 0, 203, 228, 222, 205, 18, 66, 145, 119>>
SpanIDA == <<1, 2, 3, 4, 5, 6, 7, 8>>
LinkedSpanID(i) == <<1, 2, 3, 4, 5, 6, 7, 8 + i>>

\* 24 hours in milliseconds.
DayMs == 86400000

NoResource == [present |-> FALSE, attrs |-> <<>>]
Resource(attrs) == [present |-> TRUE, attrs |-> attrs]

Event(name, time, attrs) == [Name |-> name, Time |-> time, Attributes |-> attrs]
Link(traceID, spanID, attrs) == [TraceID |-> traceID, SpanID |-> spanID, Attributes |-> attrs]

BaseSnapshot ==
    [SpanContext |-> [TraceID |-> TraceIDA, SpanID |-> SpanIDA],
     ParentSpanID |-> initializedParentID,
     Name |-> "/foo",
     StartTime |-> 1,
     EndTime |-> 2,
     Attributes |-> <<>>,
     Links |-> <<>>,
     MessageEvents |-> <<>>,
     StatusCode |-> codesUnset,
     StatusMessage |-> "",
     HasRemoteParent |-> FALSE,
     Resource |-> NoResource]

\* The i-th message event and the i-th link of a structural snapshot.
EventNo(i) == Event("event" \o ToString(i), i, <<KeyValue("request-handled", Int64(100))>>)
LinkNo(i) == Link(TraceIDPadded, LinkedSpanID(i), <<>>)

\* Snapshots that differ in their numbers of message events and links.
StructSnapshots ==
    {[BaseSnapshot EXCEPT !.MessageEvents = [i \in 1..n |-> EventNo(i)],
                          !.Links = [i \in 1..m |-> LinkNo(i)]]
       : <<n, m>> \in {c \in (0..MaxItems) \X (0..MaxItems) : c[1] + c[2] <= MaxItems}}

StructBatches == SeqsUpTo(StructSnapshots, MaxBatch)

NoOpt == Option("", "", NIL, EmptyMap)
OptWithServiceName(name) == [NoOpt EXCEPT !.kind = "WithServiceName", !.name = name]
OptWithField(name, val) == [NoOpt EXCEPT !.kind = "WithField", !.name = name, !.value = val]
OptWithFields(m) == [NoOpt EXCEPT !.kind = "WithFields", !.m = m]
OptWithDynamicField(name, f) ==
    [NoOpt EXCEPT !.kind = "WithDynamicField", !.name = name, !.value = f]
OptWithDynamicFields(m) == [NoOpt EXCEPT !.kind = "WithDynamicFields", !.m = m]
OptCallingOnError(f) == [NoOpt EXCEPT !.kind = "CallingOnError", !.value = f]
OptTargetingDataset(name) == [NoOpt EXCEPT !.kind = "TargetingDataset", !.name = name]
OptWithAPIURL(url) == [NoOpt EXCEPT !.kind = "WithAPIURL", !.name = url]
OptWithUserAgentAddendum(a) == [NoOpt EXCEPT !.kind = "WithUserAgentAddendum", !.name = a]

\* The dynamic-field functions of the inputs.
DynFuncs == {"f1", "f2"}

\* Option lists of the batch runs: a service name with a hook of the
\* caller's, and a nil hook followed by a field that is refused.
StructOpts ==
    { <<OptWithServiceName("svc"), OptCallingOnError(Func("hook"))>>,
      <<OptCallingOnError(NIL), OptWithField("", GoInt(1))>> }

\* The batches exported without any option: none, and one snapshot.
DefaultBatches ==
    { <<>>,
      << [BaseSnapshot EXCEPT !.MessageEvents = <<EventNo(1)>>, !.Links = <<LinkNo(1)>>] >> }

\* Option lists: every way of registering the names a and b, statically and
\* dynamically, one at a time and by map, and the entries that are refused.
FieldOptions ==
    {OptWithField(n, GoInt(1)) : n \in {"a", "b", ""}}
    \cup {OptWithFields(m) : m \in {EmptyMap,
                                    [k \in {"a"} |-> GoInt(2)],
                                    [k \in {"a", "b"} |-> GoInt(2)],
                                    [k \in {"a", ""} |-> GoInt(2)]}}
    \cup {OptWithDynamicField(n, Func("f1")) : n \in {"a", "b"}}
    \cup {OptWithDynamicField("a", NIL)}
    \cup {OptWithDynamicFields(m) : m \in {EmptyMap,
                                           [k \in {"a"} |-> Func("f2")],
                                           [k \in {"a", "b"} |-> Func("f2")],
                                           [k \in {"a", "b"} |-> IF k = "a" THEN Func("f2") ELSE NIL]}}

\* Options that register no field: accepted ones and refused ones.
OtherOptions ==
    {OptTargetingDataset("dataset"), OptTargetingDataset(""),
     OptWithUserAgentAddendum("agent"), OptWithAPIURL("")}

OptionLists == SeqsUpTo(FieldOptions \cup OtherOptions, MaxOpts)

\* The batch exported after the option lists: one snapshot with a span
\* attribute a, a message event with an attribute b, and a link.
OptionBatches ==
    { << [BaseSnapshot EXCEPT !.Attributes = <<KeyValue("a", Int64(7))>>,
                              !.MessageEvents = <<Event("event1", 1, <<KeyValue("b", Int64(8))>>)>>,
                              !.Links = <<LinkNo(1)>>] >> }

\* The caller makes no direct call and decodes nothing.
NoCalls ==
    /\ arg = <<>>
    /\ result = <<>>
    /\ wire = <<>>
    /\ decoded = <<>>
    /\ first = NoExporter
    /\ threads = <<>>
    /\ NoLogger

\* NewExporter is about to be called with a key and options, to export a
\* batch afterwards.
InitMachine(keys, optLists, batches) ==
    /\ apiKey \in keys
    /\ opts \in optLists
    /\ sds \in batches
    /\ pc = "start"
    /\ oi = 1
    /\ econf = ZeroConfig
    /\ newErr = NIL
    /\ exporter = NoExporter
    /\ si = 0
    /\ mi = 0
    /\ li = 0
    /\ ev = NoEvent
    /\ sent = <<>>
    /\ hookCalls = <<>>
    /\ dynCalls = [f \in DynFuncs |-> 0]
    /\ ret = Pending
    /\ UserAgentAddition = ""
    /\ clients = <<>>

InitWith(keys, optLists, batches) ==
    /\ NoCalls
    /\ InitMachine(keys, optLists, batches)

\* Batches of every shape exported by an exporter with a hook of the
\* caller's; and short batches exported by an exporter without options, or
\* not exported at all for want of an API key.
Init ==
    \/ InitWith({"key"}, StructOpts, StructBatches)
    \/ InitWith({"", "key"}, {<<>>}, DefaultBatches)

Spec == Init /\ [][Next]_vars

\* Every option list, followed by the export of one snapshot.
InitOptions == InitWith({"", "key"}, OptionLists, OptionBatches)

SpecOptions == InitOptions /\ [][Next]_vars

\* Option lists for the field claims: no field, a static field a under a
\* service name, a dynamic field a, and static fields named like fields the
\* exporter sets itself.
FieldOpts ==
    { <<>>,
      <<OptWithField("a", GoInt(1)), OptWithServiceName("svc")>>,
      <<OptWithDynamicField("a", Func("f1"))>>,
      <<OptWithField("error", String("field")), OptWithField("service_name", String("field"))>>,
      <<OptWithField("trace.parent_name", String("field")),
        OptWithField("meta.annotation_type", String("field"))>>,
      <<OptWithField("status.code", String("field")),
        OptWithDynamicField("status.message", Func("f1")),
        OptWithDynamicField("service_name", Func("f1")),
        OptWithServiceName("svc")>>,
      <<OptWithServiceName("svc"), OptWithField("service_name", String("field"))>> }

\* Snapshots that differ in where the keys a and service_name occur: span
\* attributes (with repeats), resource, message event and link.
LayerSnapshots ==
    {[BaseSnapshot EXCEPT !.Attributes = attrs,
                          !.Resource = res,
                          !.MessageEvents = <<Event("event1", 1, eattrs)>>,
                          !.Links = <<Link(TraceIDPadded, LinkedSpanID(1), lattrs)>>]
       : attrs \in SeqsUpTo({KeyValue("a", Int64(1)), KeyValue("a", Int64(2)),
                             KeyValue("service_name", String("span"))}, MaxAttrs),
         res \in {NoResource,
                  Resource(<<>>),
                  Resource(<<KeyValue("a", Int64(3))>>),
                  Resource(<<KeyValue("service_name", String("resource"))>>),
                  Resource(<<KeyValue("a", Int64(3)),
                             KeyValue("service_name", String("resource"))>>)},
         eattrs \in {<<>>, <<KeyValue("a", Int64(4))>>,
                     <<KeyValue("service_name", String("event"))>>},
         lattrs \in {<<>>, <<KeyValue("a", Int64(5))>>,
                     <<KeyValue("service_name", String("link"))>>}}

\* Snapshots that differ in their status and in who else names a field error.
StatusSnapshots ==
    {[BaseSnapshot EXCEPT !.StatusCode = code,
                          !.StatusMessage = IF code = codesUnset THEN "" ELSE "message",
                          !.Attributes = attrs,
                          !.Resource = res]
       : code \in {codesUnset, codesError, codesOk},
         attrs \in SeqsUpTo({KeyValue("error", Bool(TRUE)), KeyValue("error", Bool(FALSE))}, 1),
         res \in {NoResource, Resource(<<KeyValue("error", String("resource"))>>)}}

\* Timestamps: the zero time, small ones, and one 24 hours after the others.
TimeVals == (0..MaxTime) \cup {MaxTime + DayMs}

\* Snapshots that differ in their start and end times.
TimeSnapshots ==
    {[BaseSnapshot EXCEPT !.StartTime = start,
                          !.EndTime = end,
                          !.Attributes = attrs]
       : start \in TimeVals, end \in TimeVals,
         attrs \in {<<>>, <<KeyValue("duration_ms", Int64(5))>>}}

\* Parent span ids: none, the span's own, and two others.
ParentIDs ==
    {initializedParentID, SpanIDA, <<0, 0, 0, 0, 0, 0, 0, 1>>,
     <<171, 205, 239, 0, 10, 27, 60, 255>>}

\* Snapshots that differ in their parent and in who else names a field
\* trace.parent_id.
ParentSnapshots ==
    {[BaseSnapshot EXCEPT !.ParentSpanID = parent,
                          !.Attributes = attrs,
                          !.Resource = res]
       : parent \in ParentIDs,
         attrs \in {<<>>, <<KeyValue("trace.parent_id", String("attribute"))>>},
         res \in {NoResource, Resource(<<KeyValue("trace.parent_id", String("resource"))>>)}}

\* Attributes named like the fields the exporter sets on a message-event
\* record, and like those it sets on a link record.
EventFixedAttrs ==
    {<<>>,
     <<KeyValue("name", String("attribute")), KeyValue("trace.parent_name", String("attribute"))>>,
     <<KeyValue("meta.annotation_type", String("attribute")),
       KeyValue("trace.parent_id", String("attribute"))>>,
     <<KeyValue("trace.trace_id", String("attribute"))>>}

LinkFixedAttrs ==
    {<<>>,
     <<KeyValue("trace.link.trace_id", String("attribute")),
       KeyValue("trace.link.span_id", String("attribute"))>>,
     <<KeyValue("meta.annotation_type", String("attribute")), KeyValue("ref_type", Int64(1))>>,
     <<KeyValue("trace.trace_id", String("attribute")),
       KeyValue("trace.parent_id", String("attribute"))>>}

\* Snapshots with one message event and one link that differ in the names
\* of the span and of the event, in the linked trace, and in who else names
\* a field the exporter sets on these records.
FixedSnapshots ==
    {[BaseSnapshot EXCEPT !.Name = name,
                          !.Attributes = attrs,
                          !.Resource = res,
                          !.MessageEvents = <<Event(e[1], e[2], eattrs)>>,
                          !.Links = <<Link(linked, LinkedSpanID(1), lattrs)>>]
       : name \in {"/foo", ""},
         attrs \in {<<>>, <<KeyValue("trace.trace_id", String("span"))>>,
                     <<KeyValue("trace.span_id", String("span"))>>},
         res \in {NoResource,
                  Resource(<<KeyValue("trace.parent_name", String("resource")),
                             KeyValue("ref_type", Int64(1))>>)},
         e \in {<<"event1", 1>>, <<"", 0>>},
         eattrs \in EventFixedAttrs,
         linked \in {TraceIDPadded, TraceIDA},
         lattrs \in LinkFixedAttrs}

\* Span attributes named like the fields the exporter sets on the primary
\* record, one at a time, and a name together with a status code.
CanonicalAttrs ==
    {<<KeyValue(k, String("attribute"))>>
        : k \in {"trace.trace_id", "trace.span_id", "name", "duration_ms", "trace.parent_id",
                 "has_remote_parent", "error", "service_name", "status.code",
                 "status.message"}}
    \cup {<<>>,
          <<KeyValue("name", String("attribute")), KeyValue("status.code", Int64(7))>>}

\* Snapshots that differ in their status and in who else names a field
\* the exporter sets on the primary record.
CanonicalSnapshots ==
    {[BaseSnapshot EXCEPT !.StatusCode = code,
                          !.StatusMessage = IF code = codesUnset THEN "" ELSE "message",
                          !.Attributes = attrs,
                          !.Resource = res]
       : code \in {codesUnset, codesError},
         attrs \in CanonicalAttrs,
         res \in {NoResource,
                  Resource(<<KeyValue("status.code", String("resource")),
                             KeyValue("status.message", String("resource"))>>)}}

FieldBatches ==
    {<<s>> : s \in LayerSnapshots \cup StatusSnapshots \cup TimeSnapshots
                      \cup ParentSnapshots \cup FixedSnapshots \cup CanonicalSnapshots}

\* One snapshot of every kind of field content, exported by exporters with
\* and without fields of their own.
InitFields == InitWith({"key"}, FieldOpts, FieldBatches)

SpecFields == InitFields /\ [][Next]_vars

(***************************************************************************)
(* Two goroutines that export through one exporter with a service name and *)
(* a static field, each its own batch.                                     *)
(***************************************************************************)
Threads == {"t1", "t2"}

\* The snapshots of goroutine t: the shapes with fewer than MaxItems message
\* events and links, named after the goroutine, and with an attribute that
\* says whose they are.
ThreadSnapshots(t) ==
    {[s EXCEPT !.Name = "/" \o t,
               !.Attributes = <<KeyValue("owner", String(t))>>,
               !.Resource = Resource(<<KeyValue("host", String(t))>>)]
       : s \in {x \in StructSnapshots : Len(x.MessageEvents) + Len(x.Links) < MaxItems}}

\* A batch of one snapshot, or of two without message events and links.
ThreadBatches(t) ==
    {<<s>> : s \in ThreadSnapshots(t)}
    \cup {<<s, s>> : s \in {x \in ThreadSnapshots(t) : x.MessageEvents = <<>> /\ x.Links = <<>>}}

Thread(batch) ==
    [pc |-> "idle", sds |-> batch, si |-> 0, mi |-> 0, li |-> 0, ev |-> NoEvent,
     ret |-> Pending]

\* The exporter of the goroutines: a service name and a static field, alone
\* or with a dynamic field.
ThreadOpts ==
    { <<OptWithServiceName("svc"), OptWithField("a", GoInt(1))>>,
      <<OptWithServiceName("svc"), OptWithField("a", GoInt(1)),
        OptWithDynamicField("tick", Func("f1"))>> }

InitThreads ==
    /\ InitMachine({"key"}, ThreadOpts, {<<>>})
    /\ arg = <<>>
    /\ result = <<>>
    /\ wire = <<>>
    /\ decoded = <<>>
    /\ first = NoExporter
    /\ NoLogger
    /\ \E batches \in [Threads -> UNION {ThreadBatches(t) : t \in Threads}] :
          /\ \A t \in Threads : batches[t] \in ThreadBatches(t)
          /\ threads = [t \in Threads |-> Thread(batches[t])]

SpecThreads == InitThreads /\ [][NextThreads]_vars

\* The first exporter of a process that makes two: any of the option lists
\* of the second.
InitTwo == InitWith({"key"}, SecondOptionLists, {<<>>})

SpecTwo == InitTwo /\ [][NextTwo]_vars

\* The exporter whose error logger runs: with the default hook or one of
\* the caller's, or with a service name, a static and a dynamic field,
\* exporting nothing or one snapshot with a message event and a link.
LoggerOpts ==
    { <<>>,
      <<OptCallingOnError(Func("hook"))>>,
      <<OptWithServiceName("svc"), OptWithField("a", GoInt(1)),
        OptWithDynamicField("b", Func("f1"))>> }

InitLogger == InitWith({"key"}, LoggerOpts, DefaultBatches)

\* The Go scheduler runs a goroutine that can take a step, and select takes
\* a case that stays ready.
SpecLogger ==
    /\ InitLogger
    /\ [][NextLogger]_vars
    /\ WF_vars(LoggerReceive)
    /\ WF_vars(LoggerClosed)
    /\ WF_vars(LoggerDone)

(***************************************************************************)
(* The decoder of wire spans (src/honeycomb/translator.go).  A field of a  *)
(* wire message that is a pointer is a record with the flag present; a nil *)
(* slice and an empty one are both the empty tuple.  Go ranges over a map  *)
(* in an order of its choosing, so the decoder takes the order in which it *)
(* meets the keys of each map as an input.                                 *)
(***************************************************************************)
NoString == [present |-> FALSE, Value |-> ""]
TruncatableString(v) == [present |-> TRUE, Value |-> v]

NoTimestamp == [present |-> FALSE, Seconds |-> 0, Nanos |-> 0]
Timestamp(sec, nanos) == [present |-> TRUE, Seconds |-> sec, Nanos |-> nanos]

\* A *Span_Attributes: nil, with a nil map, or with a map from keys to
\* AttributeValues.  An AttributeValue is the variant of its oneof (none
\* when no variant is set) with what the variant holds.
NoAttributes == [present |-> FALSE, hasMap |-> FALSE, AttributeMap |-> EmptyMap]
NilMapAttributes == [present |-> TRUE, hasMap |-> FALSE, AttributeMap |-> EmptyMap]
SpanAttributes(m) == [present |-> TRUE, hasMap |-> TRUE, AttributeMap |-> m]

NoLinks == [present |-> FALSE, Link |-> <<>>, DroppedLinksCount |-> 0]
SpanLinks(links, dropped) == [present |-> TRUE, Link |-> links, DroppedLinksCount |-> dropped]
SpanLink(traceID, spanID, attributes) ==
    [TraceId |-> traceID, SpanId |-> spanID, Attributes |-> attributes]

NoTimeEvents == [present |-> FALSE, TimeEvent |-> <<>>]
SpanTimeEvents(events) == [present |-> TRUE, TimeEvent |-> events]
TimeEvent(variant, time, description, attributes) ==
    [variant |-> variant, Time |-> time, Description |-> description,
     Attributes |-> attributes]

NoStatus == [present |-> FALSE, Code |-> 0, Message |-> ""]
Status(code, message) == [present |-> TRUE, Code |-> code, Message |-> message]

NoWrapper == [present |-> FALSE, Value |-> FALSE]
BoolValue(b) == [present |-> TRUE, Value |-> b]
NoCount == [present |-> FALSE, Value |-> 0]
UInt32Value(n) == [present |-> TRUE, Value |-> n]

NoWireResource == [present |-> FALSE, Labels |-> EmptyMap]
WireResource(labels) == [present |-> TRUE, Labels |-> labels]

\* A non-nil wire span with every field absent, and the nil span.
EmptySpan ==
    [isNil |-> FALSE,
     TraceId |-> <<>>,
     SpanId |-> <<>>,
     ParentSpanId |-> <<>>,
     Name |-> NoString,
     Kind |-> "SPAN_KIND_UNSPECIFIED",
     StartTime |-> NoTimestamp,
     EndTime |-> NoTimestamp,
     Attributes |-> NoAttributes,
     Links |-> NoLinks,
     TimeEvents |-> NoTimeEvents,
     Status |-> NoStatus,
     SameProcessAsParentSpan |-> NoWrapper,
     ChildSpanCount |-> NoCount,
     Resource |-> NoWireResource]

NilSpan == [EmptySpan EXCEPT !.isNil = TRUE]

\* time.Time{} and time.Unix(sec, nsec).
ZeroTime == [zero |-> TRUE, sec |-> 0, nsec |-> 0]
Unix(sec, nsec) == [zero |-> FALSE, sec |-> sec, nsec |-> nsec]

timestampToTime(ts) == IF ~ts.present THEN ZeroTime ELSE Unix(ts.Seconds, ts.Nanos)

oTelSpanKind(kind) ==
    CASE kind = "SPAN_KIND_UNSPECIFIED" -> "SpanKindUnspecified"
      [] kind = "SERVER" -> "SpanKindServer"
      [] kind = "CLIENT" -> "SpanKindClient"
      [] OTHER -> "SpanKindUnspecified"

\* The orders in which a range over the map m can meet its keys.
OrdersOf(m) ==
    {o \in [1..Cardinality(DOMAIN m) -> DOMAIN m] :
        \A i, j \in DOMAIN o : o[i] = o[j] => i = j}

\* An order for the attribute map of every element of a list.
OrdersOfAll(items) ==
    {os \in [1..Len(items) -> UNION {OrdersOf(items[i].Attributes.AttributeMap)
                                      : i \in 1..Len(items)}] :
        \A i \in 1..Len(items) : os[i] \in OrdersOf(items[i].Attributes.AttributeMap)}

attributeValueAsString(val) == IF val.t = "StringValue" THEN val.s ELSE ""

\* core.Value{}, the value of a KeyValue that was given none.
InvalidValue == Value("INVALID", "", 0, FALSE)

\* createOTelAttributes: one KeyValue for every entry of the map, in the
\* order of the range; the switch gives a value to the four variants it
\* knows and leaves the KeyValue of any other without one.
createOTelAttributes(attributes, order) ==
    IF ~attributes.present \/ ~attributes.hasMap
    THEN <<>>
    ELSE [i \in 1..Len(order) |->
            LET val == attributes.AttributeMap[order[i]]
            IN  KeyValue(order[i],
                         CASE val.t = "StringValue" -> String(attributeValueAsString(val))
                           [] val.t = "BoolValue" -> Bool(val.b)
                           [] val.t = "IntValue" -> Int64(val.n)
                           [] val.t = "DoubleValue" -> Float64(val.n)
                           [] OTHER -> InvalidValue)]

createSpanLinks(spanLinks, orders) ==
    IF ~spanLinks.present
    THEN <<>>
    ELSE [i \in 1..Len(spanLinks.Link) |->
            LET l == spanLinks.Link[i]
                sc == spanContext(l.TraceId, l.SpanId)
            IN  Link(sc.TraceID, sc.SpanID, createOTelAttributes(l.Attributes, orders[i]))]

getDroppedLinkCount(links) == IF links.present THEN links.DroppedLinksCount ELSE 0

getChildSpanCount(span) == IF span.ChildSpanCount.present THEN span.ChildSpanCount.Value ELSE 0

getSpanName(span) == IF span.Name.present THEN span.Name.Value ELSE ""

\* The zero SpanData, and the nil *SpanData.
ZeroSpanData ==
    [isNil |-> FALSE,
     SpanContext |-> spanContext(<<>>, <<>>),
     ParentSpanID |-> initializedParentID,
     SpanKind |-> "SpanKindUnspecified",
     Name |-> "",
     StartTime |-> ZeroTime,
     EndTime |-> ZeroTime,
     Attributes |-> <<>>,
     MessageEvents |-> <<>>,
     Links |-> <<>>,
     StatusCode |-> codesUnset,
     StatusMessage |-> "",
     HasRemoteParent |-> FALSE,
     DroppedLinkCount |-> 0,
     ChildSpanCount |-> 0,
     Resource |-> NoResource]

NilSpanData == [ZeroSpanData EXCEPT !.isNil = TRUE]

\* OCProtoSpanToOTelSpanData without the test for a nil span: the getters
\* of a nil message return zero values.
OCProtoSpanToOTelSpanDataUnchecked(span, ord) ==
    [spanData |->
        [ZeroSpanData EXCEPT
            !.SpanContext = spanContext(span.TraceId, span.SpanId),
            !.ParentSpanID = CopyInto(8, span.ParentSpanId),
            !.Name = getSpanName(span),
            !.SpanKind = oTelSpanKind(span.Kind),
            !.Links = createSpanLinks(span.Links, ord.links),
            !.Attributes = createOTelAttributes(span.Attributes, ord.attrs),
            !.StartTime = timestampToTime(span.StartTime),
            !.EndTime = timestampToTime(span.EndTime),
            !.DroppedLinkCount = getDroppedLinkCount(span.Links),
            !.ChildSpanCount = getChildSpanCount(span)],
     err |-> NIL]

\* OCProtoSpanToOTelSpanData(span): the snapshot and the error it returns.
OCProtoSpanToOTelSpanData(span, ord) ==
    IF span.isNil
    THEN [spanData |-> NilSpanData, err |-> Error("expected a non-nil span")]
    ELSE [spanData |->
             [ZeroSpanData EXCEPT
                 !.SpanContext = spanContext(span.TraceId, span.SpanId),
                 !.ParentSpanID = CopyInto(8, span.ParentSpanId),
                 !.Name = getSpanName(span),
                 !.SpanKind = oTelSpanKind(span.Kind),
                 !.Links = createSpanLinks(span.Links, ord.links),
                 !.Attributes = createOTelAttributes(span.Attributes, ord.attrs),
                 !.StartTime = timestampToTime(span.StartTime),
                 !.EndTime = timestampToTime(span.EndTime),
                 !.DroppedLinkCount = getDroppedLinkCount(span.Links),
                 !.ChildSpanCount = getChildSpanCount(span)],
          err |-> NIL]

(***************************************************************************)
(* OCProtoSpanToOTelSpanSnapshot, the decoder the tests of                 *)
(* translator_test.go call: OCProtoSpanToOTelSpanData followed by the      *)
(* message events, the status, the remote-parent flag and the resource of  *)
(* the snapshot, as section 4.2 of the specification words them.           *)
(***************************************************************************)
\* The positions of the annotations among the time events.
Annotations(events) ==
    SelectSeq([i \in 1..Len(events) |-> i], LAMBDA i : events[i].variant = "Annotation")

\* createMessageEvents that makes an Event of every time event.
createMessageEventsOfAll(timeEvents, orders) ==
    [i \in 1..Len(timeEvents.TimeEvent) |->
        LET te == timeEvents.TimeEvent[i]
        IN  Event(te.Description.Value, timestampToTime(te.Time),
                  createOTelAttributes(te.Attributes, orders[i]))]

\* One Event for every annotation, in the order of the wire.
createMessageEvents(timeEvents, orders) ==
    [k \in 1..Len(Annotations(timeEvents.TimeEvent)) |->
        LET i == Annotations(timeEvents.TimeEvent)[k]
            te == timeEvents.TimeEvent[i]
        IN  Event(te.Description.Value, timestampToTime(te.Time),
                  createOTelAttributes(te.Attributes, orders[i]))]

\* codes.Ok.String()
codesOkString == "Ok"

\* getStatus that leaves the zero status when the wire span has none.
getStatusZero(status) ==
    IF ~status.present
    THEN [Code |-> codesUnset, Message |-> ""]
    ELSE [Code |-> status.Code, Message |-> status.Message]

\* The status code and message of the snapshot.
getStatus(status) ==
    IF ~status.present
    THEN [Code |-> codesOk, Message |-> codesOkString]
    ELSE [Code |-> status.Code, Message |-> status.Message]

getHasRemoteParent(span) ==
    span.SameProcessAsParentSpan.present /\ ~span.SameProcessAsParentSpan.Value

\* Every label of the wire resource as a string attribute.
createResource(res, order) ==
    IF ~res.present
    THEN NoResource
    ELSE Resource([i \in 1..Len(order) |-> KeyValue(order[i], String(res.Labels[order[i]]))])

OCProtoSpanToOTelSpanSnapshot(span, ord) ==
    LET r == OCProtoSpanToOTelSpanData(span, ord)
    IN  IF r.err # NIL
        THEN r
        ELSE [r EXCEPT
                 !.spanData.MessageEvents = createMessageEvents(span.TimeEvents, ord.events),
                 !.spanData.StatusCode = getStatus(span.Status).Code,
                 !.spanData.StatusMessage = getStatus(span.Status).Message,
                 !.spanData.HasRemoteParent = getHasRemoteParent(span),
                 !.spanData.Resource = createResource(span.Resource, ord.labels)]

\* The orders in which one call of the decoder can range over the maps of
\* the span it is given.
DecodeOrders(span) ==
    {[attrs |-> a, links |-> l, events |-> e, labels |-> r] :
        a \in OrdersOf(span.Attributes.AttributeMap),
        l \in OrdersOfAll(span.Links.Link),
        e \in OrdersOfAll(span.TimeEvents.TimeEvent),
        r \in OrdersOf(span.Resource.Labels)}

\* One call of the decoder, on the next wire span.
DecodeSpan ==
    /\ Len(decoded) < Len(wire)
    /\ \E ord \in DecodeOrders(wire[Len(decoded) + 1]) :
           decoded' = Append(decoded, OCProtoSpanToOTelSpanSnapshot(wire[Len(decoded) + 1], ord))
    /\ UNCHANGED <<exporterVars, arg, result, wire, first, threads, loggerVars>>

(***************************************************************************)
(* Direct calls: getHoneycombTraceID on byte slices of every length, and   *)
(* the decoder on wire spans.  No exporter takes part.                     *)
(***************************************************************************)
MaxLen == 17         \* longest byte slice handed to getHoneycombTraceID
MaxWire == 2         \* wire spans handed to the decoder

\* The byte slice of length n that starts with z zero bytes, ends with t
\* zero bytes and has non-zero bytes, counted up from fill, in between.
Bytes(n, z, t, fill) ==
    [i \in 1..n |-> IF i <= z \/ i > n - t THEN 0 ELSE ((fill + 16 * (i - z - 1)) % 255) + 1]

ByteSlicesOfLen(n) ==
    {Bytes(n, c[1], c[2], fill) :
        c \in {d \in (0..n) \X (0..n) : d[1] + d[2] <= n},
        fill \in {0, 170}}

ByteSlices == UNION {ByteSlicesOfLen(n) : n \in 0..MaxLen}

\* 8-byte identifiers, the all-zero one among them.
LegacyIDs ==
    {initializedParentID, <<203, 228, 222, 205, 18, 66, 145, 119>>,
     <<0, 0, 0, 0, 0, 0, 0, 1>>, <<1, 0, 0, 0, 0, 0, 0, 0>>}

\* The 16-byte form of an 8-byte identifier: eight zero bytes before it.
ZeroPadded(v) == initializedParentID \o v

WireSpan(traceID, spanID) == [EmptySpan EXCEPT !.TraceId = traceID, !.SpanId = spanID]

\* Wire trace ids: absent, legacy 8-byte, zero-padded, and full 16-byte.
WireTraceIDs ==
    {<<>>, TraceIDA} \cup LegacyIDs \cup {ZeroPadded(v) : v \in LegacyIDs}

WireBatches ==
    SeqsUpTo({WireSpan(id, SpanIDA) : id \in WireTraceIDs}, MaxWire)

InitCalls ==
    /\ InitMachine({"key"}, {<<>>}, {<<>>})
    /\ first = NoExporter
    /\ threads = <<>>
    /\ NoLogger
    /\ result = <<>>
    /\ decoded = <<>>
    /\ arg \in ByteSlices
    /\ wire \in IF arg = <<>> THEN WireBatches ELSE {<<>>}

NextCalls ==
    \/ GetHoneycombTraceID
    \/ DecodeSpan

SpecCalls == InitCalls /\ [][NextCalls]_vars

(***************************************************************************)
(* Calls of the decoder on wire spans of every shape: the nil span, the    *)
(* span with no field set, a span that sets every field the span of        *)
(* TestOCProtoSpanToOTelSpanSnapshot sets, and spans that set one field    *)
(* each.                                                                   *)
(***************************************************************************)
StringAttr(v) == Value("StringValue", v, 0, FALSE)
IntAttr(n) == Value("IntValue", "", n, FALSE)
BoolAttr(b) == Value("BoolValue", "", 0, b)
DoubleAttr(n) == Value("DoubleValue", "", n, FALSE)
NoVariantAttr == Value("none", "", 0, FALSE)

TestSpan ==
    [EmptySpan EXCEPT
        !.TraceId = TraceIDA,
        !.SpanId = SpanIDA,
        !.ParentSpanId = LinkedSpanID(1),
        !.Name = TruncatableString("trace-name"),
        !.Kind = "CLIENT",
        !.StartTime = Timestamp(1, 0),
        !.EndTime = Timestamp(2, 0),
        !.Attributes = SpanAttributes(("some-string" :> StringAttr("some-value"))
                                      @@ ("some-int" :> IntAttr(17))),
        !.Links = SpanLinks(<<SpanLink(TraceIDA, LinkedSpanID(1),
                                       SpanAttributes("e" :> DoubleAttr(2)))>>, 2),
        !.TimeEvents = SpanTimeEvents(
            <<TimeEvent("Annotation", Timestamp(1, 0), TruncatableString("test-event"),
                        SpanAttributes("annotation-attr" :> StringAttr("annotation-val")))>>),
        !.Status = Status(codesUnset, "status message"),
        !.SameProcessAsParentSpan = BoolValue(FALSE),
        !.ChildSpanCount = UInt32Value(5),
        !.Resource = WireResource("host.name" :> "xanadu")]

DecoderSpans ==
    {NilSpan, EmptySpan, TestSpan,
     [EmptySpan EXCEPT !.Kind = "SERVER", !.Name = TruncatableString("")],
     [EmptySpan EXCEPT !.Kind = "7", !.SameProcessAsParentSpan = BoolValue(TRUE)],
     [EmptySpan EXCEPT !.Attributes = NilMapAttributes,
                       !.Links = SpanLinks(<<>>, 0),
                       !.TimeEvents = SpanTimeEvents(<<>>),
                       !.Resource = WireResource(EmptyMap)],
     [EmptySpan EXCEPT !.Attributes = SpanAttributes(EmptyMap)],
     [EmptySpan EXCEPT !.Attributes = SpanAttributes("k" :> NoVariantAttr)],
     [EmptySpan EXCEPT !.Attributes = SpanAttributes(("k" :> NoVariantAttr)
                                                     @@ ("b" :> BoolAttr(TRUE))
                                                     @@ ("s" :> StringAttr("v")))],
     [EmptySpan EXCEPT !.Links = SpanLinks(
         <<SpanLink(TraceIDA, SpanIDA, NoAttributes),
           SpanLink(<<>>, <<>>, SpanAttributes("k" :> NoVariantAttr))>>, 0)],
     [EmptySpan EXCEPT !.Status = Status(codesOk, "")],
     [EmptySpan EXCEPT !.Status = Status(codesError, "boom")],
     [EmptySpan EXCEPT !.TimeEvents = SpanTimeEvents(
         <<TimeEvent("MessageEvent", Timestamp(1, 0), NoString, NoAttributes),
           TimeEvent("Annotation", Timestamp(2, 5), TruncatableString("b"),
                     SpanAttributes(("x" :> IntAttr(1)) @@ ("y" :> NoVariantAttr))),
           TimeEvent("none", NoTimestamp, NoString, NoAttributes),
           TimeEvent("Annotation", NoTimestamp, TruncatableString("a"), NoAttributes)>>)],
     [EmptySpan EXCEPT !.TimeEvents = SpanTimeEvents(
         <<TimeEvent("MessageEvent", Timestamp(1, 0), NoString, NoAttributes)>>)],
     [EmptySpan EXCEPT !.Resource = WireResource(("a" :> "1") @@ ("b" :> "2"))]}

DecoderBatches == SeqsUpTo(DecoderSpans, MaxWire)

InitDecode ==
    /\ InitMachine({"key"}, {<<>>}, {<<>>})
    /\ first = NoExporter
    /\ threads = <<>>
    /\ NoLogger
    /\ result = <<>>
    /\ decoded = <<>>
    /\ arg = <<>>
    /\ wire \in DecoderBatches

NextDecode == DecodeSpan

SpecDecode == InitDecode /\ [][NextDecode]_vars

(***************************************************************************)
(* Claims about the records of a batch (checked under Spec).               *)
(***************************************************************************)
\* The records handed to send calls for snapshot j, in the order of the calls.
RecordsOf(j) == SelectSeq(sent, LAMBDA r : r.span = j)

\* exportSpan has finished for snapshot j.
Exported(j) == j \in 1..Len(sds) /\ j < si

NumEvents(j) == Len(sds[j].MessageEvents)
NumLinks(j) == Len(sds[j].Links)
OfKind(recs, kind) == {p \in 1..Len(recs) : recs[p].kind = kind}

\* C1: one exportSpan call hands exactly 1 + N + M records to the send calls
\* for a snapshot with N message events and M links: one primary record, one
\* per message event and one per link, whether or not sends fail.
C1_RecordCount ==
    \A j \in 1..Len(sds) :
        Exported(j) =>
            LET recs == RecordsOf(j)
            IN  /\ Len(recs) = 1 + NumEvents(j) + NumLinks(j)
                /\ Cardinality(OfKind(recs, "span")) = 1
                /\ Cardinality(OfKind(recs, "span_event")) = NumEvents(j)
                /\ Cardinality(OfKind(recs, "link")) = NumLinks(j)

\* A snapshot with a message event and a link was exported and one of its
\* sends failed.
C1_Witness ==
    \E j \in 1..Len(sds) :
        /\ Exported(j)
        /\ NumEvents(j) >= 1
        /\ NumLinks(j) >= 1
        /\ \E p \in 1..Len(RecordsOf(j)) : RecordsOf(j)[p].err # NIL

\* The hook NewExporter installs for an option list: the argument of the last
\* CallingOnError (a no-op for nil), the logging default without one.
RECURSIVE HookOf(_)
HookOf(os) ==
    IF os = <<>> THEN Func("log")
    ELSE LET o == os[Len(os)]
         IN  IF o.kind = "CallingOnError"
             THEN (IF o.value = NIL THEN Func("noop") ELSE o.value)
             ELSE HookOf(SubSeq(os, 1, Len(os) - 1))

\* The errors the send calls returned, in the order of the calls.
RECURSIVE ErrorsOf(_)
ErrorsOf(log) ==
    IF log = <<>> THEN <<>>
    ELSE IF Head(log).err # NIL
    THEN <<Head(log).err>> \o ErrorsOf(Tail(log))
    ELSE ErrorsOf(Tail(log))

\* C2: every error a send returns is passed to the configured error hook
\* exactly once (and nothing else is), the sends that follow a failed one
\* still happen, and ExportSpans returns nil.
C2_ErrorsToHook ==
    /\ Len(hookCalls) = Len(ErrorsOf(sent))
    /\ \A h \in 1..Len(hookCalls) :
          /\ hookCalls[h].err = ErrorsOf(sent)[h]
          /\ hookCalls[h].hook = HookOf(opts)
    /\ \A i \in Failed(sent) :
          Cardinality({h \in 1..Len(hookCalls) : hookCalls[h].err = sent[i].err}) = 1
    /\ pc = "done" =>
          /\ ret = NIL
          /\ \A j \in 1..Len(sds) :
                Cardinality({p \in 1..Len(sent) : sent[p].span = j})
                    = 1 + NumEvents(j) + NumLinks(j)

\* ExportSpans returned after a send failed that was neither the last of its
\* snapshot nor in the last snapshot, with a hook the caller configured.
C2_Witness ==
    /\ pc = "done"
    /\ Len(sds) = 2
    /\ HookOf(opts) = Func("hook")
    /\ \E i \in Failed(sent) : sent[i].span = 1 /\ sent[i].kind # "span"

\* The record exportSpan sends p-th for snapshot j: the message events in
\* their order, then the links in their order, then the primary record.
ExpectedAt(j, p) ==
    IF p <= NumEvents(j)
    THEN [kind |-> "span_event", idx |-> p,
          key |-> "name", val |-> String(sds[j].MessageEvents[p].Name)]
    ELSE IF p <= NumEvents(j) + NumLinks(j)
    THEN [kind |-> "link", idx |-> p - NumEvents(j),
          key |-> "trace.link.span_id",
          val |-> String(HexEncode(sds[j].Links[p - NumEvents(j)].SpanID))]
    ELSE [kind |-> "span", idx |-> 0,
          key |-> "trace.span_id", val |-> String(HexEncode(sds[j].SpanContext.SpanID))]

\* C3: within one snapshot the records reach the send calls in this order:
\* the message-event records in the order of MessageEvents, then the link
\* records in the order of Links, then the primary record last.
C3_OrderWithinSnapshot ==
    \A j \in 1..Len(sds) :
        LET recs == RecordsOf(j)
        IN  \A p \in 1..Len(recs) :
                LET r == recs[p]
                    e == ExpectedAt(j, p)
                IN  /\ p <= 1 + NumEvents(j) + NumLinks(j)
                    /\ r.kind = e.kind
                    /\ r.idx = e.idx
                    /\ e.key \in DOMAIN r.data
                    /\ r.data[e.key] = e.val
                    /\ ("meta.annotation_type" \in DOMAIN r.data) = (e.kind # "span")
                    /\ e.kind # "span" => r.data["meta.annotation_type"] = String(e.kind)

\* A snapshot with one message event and one link was exported: record 0 is
\* the event's, record 1 the link's and record 2 the primary one.
C3_Witness ==
    \E j \in 1..Len(sds) :
        /\ Exported(j)
        /\ NumEvents(j) = 1
        /\ NumLinks(j) = 1
        /\ RecordsOf(j)[1].kind = "span_event"
        /\ RecordsOf(j)[2].kind = "link"
        /\ RecordsOf(j)[3].kind = "span"

\* C4: the snapshots of a batch are exported one at a time in the order
\* given: every record of snapshot i is handed over before any record of
\* snapshot i+1, a snapshot is begun only when the ones before it are
\* complete, and ExportSpans returns only after the records of every
\* snapshot have been handed over.
C4_BatchOrder ==
    LET count == [j \in 1..Len(sds) |-> Cardinality({p \in 1..Len(sent) : sent[p].span = j})]
    IN  /\ \A p \in 1..Len(sent) - 1 : sent[p].span <= sent[p + 1].span
        /\ \A p \in 1..Len(sent) : sent[p].span \in 1..Len(sds)
        /\ \A j \in 1..Len(sds) :
              (\E k \in (j + 1)..Len(sds) : count[k] > 0)
                  => count[j] = 1 + NumEvents(j) + NumLinks(j)
        /\ ret # Pending =>
              \A j \in 1..Len(sds) : count[j] = 1 + NumEvents(j) + NumLinks(j)

\* ExportSpans returned from a batch of two snapshots with records of their
\* own each.
C4_Witness ==
    /\ ret # Pending
    /\ Len(sds) = 2
    /\ NumEvents(1) + NumLinks(1) >= 1
    /\ NumEvents(2) + NumLinks(2) >= 1
    /\ NumEvents(1) # NumEvents(2)

(***************************************************************************)
(* Claims about the field options (checked under SpecOptions).             *)
(***************************************************************************)
\* Option o registers the field name n, when it is applied without error.
Registers(o, n) ==
    \/ o.kind \in {"WithField", "WithDynamicField"} /\ o.name = n
    \/ o.kind \in {"WithFields", "WithDynamicFields"} /\ n \in DOMAIN o.m

IsDynamic(o) == o.kind \in {"WithDynamicField", "WithDynamicFields"}

\* What option o registers for n: a static value or a function.
Registered(o, n) == IF o.kind \in {"WithField", "WithDynamicField"} THEN o.value ELSE o.m[n]

\* The options applied without error so far.
Applied == SubSeq(opts, 1, oi - 1)

\* C5: after any sequence of successfully applied WithField, WithFields,
\* WithDynamicField and WithDynamicFields options no field name is in both
\* the static-field and the dynamic-field mapping of the configuration (nor
\* of the client the exporter is given).
C5_FieldMapsDisjoint ==
    /\ pc # "failed" =>
          (DOMAIN econf.staticFields) \cap (DOMAIN econf.dynamicFields) = {}
    /\ (DOMAIN exporter.client.data) \cap (DOMAIN exporter.client.dynFields) = {}

\* Two options were applied: the first registered a name one way, the second
\* the same name the other way.
C5_Witness ==
    /\ pc = "options"
    /\ oi = 3
    /\ \E n \in {"a", "b"} :
          /\ Registers(opts[1], n)
          /\ Registers(opts[2], n)
          /\ IsDynamic(opts[1]) # IsDynamic(opts[2])

\* The names a record takes from somewhere above the exporter's fields: the
\* resource, the service name, the attributes of the span, event or link,
\* and the fields exportSpan sets itself.
Overriding(r) ==
    LET data == sds[r.span]
        keysOf(attrs) == {attrs[i].Key : i \in 1..Len(attrs)}
        own == CASE r.kind = "span" -> keysOf(data.Attributes)
                 [] r.kind = "span_event" -> keysOf(data.MessageEvents[r.idx].Attributes)
                 [] r.kind = "link" -> keysOf(data.Links[r.idx].Attributes)
        set == CASE r.kind = "span" ->
                      {"trace.trace_id", "name", "trace.span_id", "trace.parent_id",
                       "duration_ms", "error", "has_remote_parent", "status.code",
                       "status.message"}
                 [] r.kind = "span_event" ->
                      {"name", "trace.trace_id", "trace.parent_id", "trace.parent_name",
                       "meta.annotation_type"}
                 [] r.kind = "link" ->
                      {"trace.trace_id", "trace.parent_id", "trace.link.trace_id",
                       "trace.link.span_id", "meta.annotation_type", "ref_type"}
    IN  own \cup set \cup {"service_name"}
            \cup (IF data.Resource.present THEN keysOf(data.Resource.attrs) ELSE {})

\* The index of the last option of os that registers n (0 if none does).
RECURSIVE LastRegistering(_, _)
LastRegistering(os, n) ==
    IF os = <<>> THEN 0
    ELSE IF Registers(os[Len(os)], n) THEN Len(os)
    ELSE LastRegistering(SubSeq(os, 1, Len(os) - 1), n)

\* C6: for every field name registered by the options, the value of that
\* field on an emitted record (when no resource, span or fixed field
\* overrides it) is the one supplied by the last option that registered the
\* name: its static value if that option was static, the result of calling
\* its function if it was dynamic, whatever the earlier registrations were.
C6_LastRegistrationWins ==
    \A p \in 1..Len(sent) :
        \A n \in {"a", "b"} :
            LET r == sent[p]
                last == LastRegistering(opts, n)
            IN  n \notin Overriding(r) =>
                    IF last = 0
                    THEN n \notin DOMAIN r.data
                    ELSE /\ n \in DOMAIN r.data
                         /\ IF IsDynamic(opts[last])
                            THEN \E k \in 1..Len(sent) + 1 :
                                     r.data[n] = DynValue(Registered(opts[last], n), k)
                            ELSE r.data[n] = Registered(opts[last], n)

\* The link record was emitted with a field that two options registered, one
\* statically and one dynamically, and that nothing overrides.
C6_Witness ==
    /\ Len(sent) = 3
    /\ \E n \in {"a", "b"} :
          /\ n \in DOMAIN sent[2].data
          /\ Len(opts) = 2
          /\ Registers(opts[1], n)
          /\ Registers(opts[2], n)
          /\ IsDynamic(opts[1]) # IsDynamic(opts[2])
          /\ n \notin Overriding(sent[2])

(***************************************************************************)
(* Claims about the fields of the records (checked under SpecFields).      *)
(***************************************************************************)
KeysOf(attrs) == {attrs[i].Key : i \in 1..Len(attrs)}

\* The value of the last attribute of attrs whose key is k.
RECURSIVE LastValue(_, _)
LastValue(attrs, k) ==
    IF attrs[Len(attrs)].Key = k THEN attrs[Len(attrs)].Value
    ELSE LastValue(SubSeq(attrs, 1, Len(attrs) - 1), k)

\* The canonical and status field names of the primary record.
CanonicalNames ==
    {"trace.trace_id", "trace.span_id", "name", "duration_ms", "trace.parent_id",
     "has_remote_parent", "error", "service_name", "status.code", "status.message"}

\* The fixed fields of a message-event record and of a link record.
FixedNames(kind) ==
    IF kind = "span_event"
    THEN {"name", "trace.trace_id", "trace.parent_id", "trace.parent_name",
          "meta.annotation_type"}
    ELSE {"trace.trace_id", "trace.parent_id", "trace.link.trace_id",
          "trace.link.span_id", "meta.annotation_type", "ref_type"}

\* Record r has for key k what the layers below the record's own attributes
\* give: the resource attribute if the resource carries k, otherwise the
\* exporter's static or dynamic field, and nothing if neither exists.
FromUnderlay(r, k) ==
    LET data == sds[r.span]
        last == LastRegistering(opts, k)
    IN  IF data.Resource.present /\ k \in KeysOf(data.Resource.attrs)
        THEN k \in DOMAIN r.data /\ r.data[k] = LastValue(data.Resource.attrs, k)
        ELSE IF last = 0
        THEN k \notin DOMAIN r.data
        ELSE /\ k \in DOMAIN r.data
             /\ IF IsDynamic(opts[last])
                THEN \E n \in 1..Len(sent) + 1 :
                         r.data[k] = DynValue(Registered(opts[last], k), n)
                ELSE r.data[k] = Registered(opts[last], k)

\* Record r has for key k the value of the last attribute of attrs keyed k,
\* and without one what the layers below give.
Layered(r, k, attrs) ==
    IF k \in KeysOf(attrs)
    THEN k \in DOMAIN r.data /\ r.data[k] = LastValue(attrs, k)
    ELSE FromUnderlay(r, k)

\* The attributes of the event or link that record r was built for.
OwnAttributes(r) ==
    IF r.kind = "span_event"
    THEN sds[r.span].MessageEvents[r.idx].Attributes
    ELSE sds[r.span].Links[r.idx].Attributes

\* The keys the field claims look at on record r: every key it carries and
\* the keys of the inputs.
KeysAt(r) == (DOMAIN r.data) \cup {"a", "b", "service_name", "error"}

\* C7: on the primary record, for a key k that is none of the canonical or
\* status field names, the value is the span attribute's when the span
\* carries k, otherwise the resource attribute's when the resource carries
\* k, otherwise the exporter static/dynamic field's.
C7_PrimaryLayering ==
    \A p \in 1..Len(sent) :
        sent[p].kind = "span" =>
            \A k \in KeysAt(sent[p]) \ CanonicalNames :
                Layered(sent[p], k, sds[sent[p].span].Attributes)

\* A primary record was sent for a span whose attributes, resource and
\* exporter fields all carry the key a.
C7_Witness ==
    \E p \in 1..Len(sent) :
        /\ sent[p].kind = "span"
        /\ "a" \in KeysOf(sds[1].Attributes)
        /\ Len(sds[1].Attributes) = 2
        /\ sds[1].Resource.present
        /\ "a" \in KeysOf(sds[1].Resource.attrs)
        /\ LastRegistering(opts, "a") # 0

\* C8 as stated: on a message-event or link record, for every key k that
\* is not one of the record's fixed fields, the value is the event's or
\* link's own attribute if it carries k, otherwise the resource attribute,
\* otherwise the exporter static/dynamic field, and k is absent if none
\* carries it.
C8_AsStated ==
    \A p \in 1..Len(sent) :
        sent[p].kind # "span" =>
            \A k \in KeysAt(sent[p]) \ FixedNames(sent[p].kind) :
                Layered(sent[p], k, OwnAttributes(sent[p]))

\* C8: no message-event record and no link record takes a value from the
\* span's attributes: for a key k that is not one of the record's fixed
\* fields, and is not service_name when the exporter has a service name, the
\* value is the event's or link's own attribute if it carries k, otherwise
\* the resource attribute, otherwise the exporter static/dynamic field, and
\* k is absent if none carries it.
C8_EventLinkLayering ==
    \A p \in 1..Len(sent) :
        sent[p].kind # "span" =>
            \A k \in KeysAt(sent[p]) \ FixedNames(sent[p].kind) :
                (k = "service_name" /\ exporter.serviceName # "")
                    \/ Layered(sent[p], k, OwnAttributes(sent[p]))

\* A message-event record and a link record were sent, neither with an
\* attribute a of its own, for a span that has an attribute a.
C8_Witness ==
    /\ Len(sent) >= 2
    /\ sent[1].kind = "span_event"
    /\ sent[2].kind = "link"
    /\ "a" \in KeysOf(sds[1].Attributes)
    /\ "a" \notin KeysOf(OwnAttributes(sent[1]))
    /\ "a" \notin KeysOf(OwnAttributes(sent[2]))
    /\ "a" \notin DOMAIN sent[1].data

\* C9 as stated: the primary record carries error = true if and only if
\* StatusCode is Error, and carries no field error for Ok and Unset.
C9_AsStated ==
    \A p \in 1..Len(sent) :
        sent[p].kind = "span" =>
            IF sds[sent[p].span].StatusCode = codesError
            THEN "error" \in DOMAIN sent[p].data /\ sent[p].data["error"] = Bool(TRUE)
            ELSE "error" \notin DOMAIN sent[p].data

\* Somebody else names a field error: a span attribute, a resource attribute
\* or an exporter field.
ErrorNamedElsewhere(j) ==
    \/ "error" \in KeysOf(sds[j].Attributes)
    \/ sds[j].Resource.present /\ "error" \in KeysOf(sds[j].Resource.attrs)
    \/ LastRegistering(opts, "error") # 0

\* C9: when no span attribute, resource attribute or exporter field is named
\* error, the primary record carries error = true if and only if StatusCode
\* is Error, and carries no field error for Ok and Unset.
C9_ErrorFlag ==
    \A p \in 1..Len(sent) :
        (sent[p].kind = "span" /\ ~ErrorNamedElsewhere(sent[p].span)) =>
            IF sds[sent[p].span].StatusCode = codesError
            THEN "error" \in DOMAIN sent[p].data /\ sent[p].data["error"] = Bool(TRUE)
            ELSE "error" \notin DOMAIN sent[p].data

\* A primary record was sent for a span with StatusCode Ok that nobody else
\* gives a field error.
C9_Witness ==
    \E p \in 1..Len(sent) :
        /\ sent[p].kind = "span"
        /\ sds[1].StatusCode = codesOk
        /\ ~ErrorNamedElsewhere(1)

\* C10 as stated, for the records whose duration_ms no span attribute
\* replaces: duration_ms is >= 0 whatever StartTime and EndTime are; it is 0
\* when either is the zero time or when they are equal, and EndTime minus
\* StartTime in milliseconds otherwise (86400000 for a 24-hour span).
C10_AsStated ==
    \A p \in 1..Len(sent) :
        (sent[p].kind = "span" /\ "duration_ms" \notin KeysOf(sds[sent[p].span].Attributes)) =>
            LET start == sds[sent[p].span].StartTime
                end == sds[sent[p].span].EndTime
                d == sent[p].data["duration_ms"]
            IN  /\ d.t = "float64"
                /\ d.n >= 0
                /\ IF start = 0 \/ end = 0 \/ start = end
                   THEN d.n = 0
                   ELSE d.n = end - start

\* Somebody other than the exporter's own struct names a field k for snapshot
\* j: a span attribute, a resource attribute or an exporter field.
NamedElsewhere(j, k) ==
    \/ k \in KeysOf(sds[j].Attributes)
    \/ sds[j].Resource.present /\ k \in KeysOf(sds[j].Resource.attrs)
    \/ LastRegistering(opts, k) # 0

\* The span of snapshot j has no parent to report: ParentSpanID is all-zero
\* or is the span's own SpanID.
NoParent(j) ==
    \/ AllZero(sds[j].ParentSpanID)
    \/ sds[j].ParentSpanID = sds[j].SpanContext.SpanID

\* C11 as stated: on every primary record trace.parent_id is absent when
\* ParentSpanID is all-zero or equals the span's own SpanID, and otherwise
\* is the lowercase hex encoding of the 8 bytes of ParentSpanID.
C11_AsStated ==
    \A p \in 1..Len(sent) :
        sent[p].kind = "span" =>
            IF NoParent(sent[p].span)
            THEN "trace.parent_id" \notin DOMAIN sent[p].data
            ELSE /\ "trace.parent_id" \in DOMAIN sent[p].data
                 /\ sent[p].data["trace.parent_id"]
                        = String(HexEncode(sds[sent[p].span].ParentSpanID))

\* C11: when no span attribute, resource attribute or exporter field is
\* named trace.parent_id, the primary record has no trace.parent_id when
\* ParentSpanID is all-zero or equals the span's own SpanID, and otherwise
\* carries the lowercase hex encoding of the 8 bytes of ParentSpanID.
C11_ParentID ==
    \A p \in 1..Len(sent) :
        (sent[p].kind = "span" /\ ~NamedElsewhere(sent[p].span, "trace.parent_id")) =>
            IF NoParent(sent[p].span)
            THEN "trace.parent_id" \notin DOMAIN sent[p].data
            ELSE /\ "trace.parent_id" \in DOMAIN sent[p].data
                 /\ sent[p].data["trace.parent_id"]
                        = String(HexEncode(sds[sent[p].span].ParentSpanID))
                 /\ Len(sent[p].data["trace.parent_id"].s) = 16

\* A primary record without trace.parent_id was sent for a span that names
\* itself as its parent.
C11_Witness ==
    \E p \in 1..Len(sent) :
        /\ sent[p].kind = "span"
        /\ sds[1].ParentSpanID = sds[1].SpanContext.SpanID
        /\ ~AllZero(sds[1].ParentSpanID)
        /\ ~NamedElsewhere(1, "trace.parent_id")
        /\ "trace.parent_id" \notin DOMAIN sent[p].data

(***************************************************************************)
(* Claims about the identifier codec and the decoder (checked under        *)
(* SpecCalls).                                                             *)
(***************************************************************************)
\* The value of a lowercase hex digit.
HexDigit(c) == CHOOSE d \in 0..15 : HexChars[d + 1] = c

\* The bytes a string of lowercase hex digits stands for.
RECURSIVE HexDecode(_)
HexDecode(str) ==
    IF Len(str) < 2 THEN <<>>
    ELSE <<16 * HexDigit(SubSeq(str, 1, 1)) + HexDigit(SubSeq(str, 2, 2))>>
             \o HexDecode(SubSeq(str, 3, Len(str)))

\* C12: getHoneycombTraceID never panics, and for a byte slice b it returns:
\* the hex form of exactly the bytes of b (2 * len(b) characters) when
\* len(b) < 8; the 32 hex characters of all 16 bytes when len(b) = 16 and
\* the first 8 bytes are not all zero (the two halves of 16 characters give
\* back the high and the low 8 bytes); the 16 hex characters of the last 8
\* bytes when len(b) = 16 and the first 8 bytes are all zero; and the 16
\* hex characters of the first 8 bytes for every other length >= 8.
C12_TraceIDCodec ==
    result # <<>> =>
        LET r == result[1]
            b == arg
        IN  /\ r # "panic"
            /\ IF Len(b) < 8
               THEN Len(r) = 2 * Len(b) /\ HexDecode(r) = b
               ELSE IF Len(b) = 16 /\ ~AllZero(SubSeq(b, 1, 8))
               THEN /\ Len(r) = 32
                    /\ HexDecode(SubSeq(r, 1, 16)) = SubSeq(b, 1, 8)
                    /\ HexDecode(SubSeq(r, 17, 32)) = SubSeq(b, 9, 16)
               ELSE IF Len(b) = 16
               THEN Len(r) = 16 /\ HexDecode(r) = SubSeq(b, 9, 16)
               ELSE Len(r) = 16 /\ HexDecode(r) = SubSeq(b, 1, 8)

\* getHoneycombTraceID has returned for a slice of 17 bytes that has
\* non-zero bytes in both halves.
C12_Witness ==
    /\ result # <<>>
    /\ Len(arg) = 17
    /\ arg[1] # 0
    /\ arg[17] # 0
    /\ Len(result[1]) = 16

\* C13 as stated: for every 8-byte value v, the codec form of the TraceID
\* decoded from the zero-padded 16-byte wire trace id of v is the codec form
\* of the TraceID decoded from the 8-byte wire trace id v.
C13_AsStated ==
    \A i, j \in 1..Len(decoded) :
        \A v \in LegacyIDs :
            (wire[i].TraceId = ZeroPadded(v) /\ wire[j].TraceId = v) =>
                getHoneycombTraceID(decoded[i].spanData.SpanContext.TraceID)
                    = getHoneycombTraceID(decoded[j].spanData.SpanContext.TraceID)

(***************************************************************************)
(* Claims about the fields the exporter sets on message-event and link     *)
(* records (checked under SpecFields).                                     *)
(***************************************************************************)
\* Record r carries the field k with the string str.
Carries(r, k, str) == k \in DOMAIN r.data /\ r.data[k] = String(str)

\* The primary records sent for the snapshot of record r.
PrimaryOf(r) == {q \in 1..Len(sent) : sent[q].kind = "span" /\ sent[q].span = r.span}

\* The fields of a message-event record r that do not depend on the span's
\* name: the event's name, the trace id, the parent id, the annotation
\* type, and the event's time as timestamp.
EventFixedFields(r) ==
    LET data == sds[r.span]
        a == data.MessageEvents[r.idx]
    IN  /\ Carries(r, "name", a.Name)
        /\ Carries(r, "trace.trace_id", getHoneycombTraceID(data.SpanContext.TraceID))
        /\ Carries(r, "trace.parent_id", HexEncode(data.SpanContext.SpanID))
        /\ Carries(r, "meta.annotation_type", "span_event")
        /\ r.Timestamp = a.Time

\* C14 as stated: every message-event record carries name = the event's
\* Name, trace.trace_id = the codec form of the span's TraceID (the primary
\* record's trace.trace_id), trace.parent_id = the span's SpanID (the
\* primary record's trace.span_id), trace.parent_name = the span's Name and
\* meta.annotation_type = "span_event", whatever attributes of the same
\* names exist, and its timestamp is the event's Time.
C14_AsStated ==
    \A p \in 1..Len(sent) :
        sent[p].kind = "span_event" =>
            /\ EventFixedFields(sent[p])
            /\ Carries(sent[p], "trace.parent_name", sds[sent[p].span].Name)
            /\ \A q \in PrimaryOf(sent[p]) :
                   /\ sent[q].data["trace.trace_id"] = sent[p].data["trace.trace_id"]
                   /\ sent[q].data["trace.span_id"] = sent[p].data["trace.parent_id"]

\* C14: every message-event record carries name = the event's Name,
\* trace.trace_id = the codec form of the span's TraceID, trace.parent_id =
\* the span's SpanID and meta.annotation_type = "span_event", whatever
\* attributes of the same names exist, and its timestamp is the event's
\* Time; it carries trace.parent_name = the span's Name when that Name is
\* not empty, and with an empty Name has for trace.parent_name what the
\* event's attributes, the resource and the exporter fields give; the trace
\* id and the parent id are the primary record's trace.trace_id and
\* trace.span_id unless a span attribute of that name replaces them there.
C14_MessageEventFixedFields ==
    \A p \in 1..Len(sent) :
        sent[p].kind = "span_event" =>
            LET data == sds[sent[p].span]
            IN  /\ EventFixedFields(sent[p])
                /\ IF data.Name # ""
                   THEN Carries(sent[p], "trace.parent_name", data.Name)
                   ELSE Layered(sent[p], "trace.parent_name", OwnAttributes(sent[p]))
                /\ \A q \in PrimaryOf(sent[p]) :
                       /\ "trace.trace_id" \notin KeysOf(data.Attributes)
                            => sent[q].data["trace.trace_id"] = sent[p].data["trace.trace_id"]
                       /\ "trace.span_id" \notin KeysOf(data.Attributes)
                            => sent[q].data["trace.span_id"] = sent[p].data["trace.parent_id"]

\* The records of a span named /foo were sent, the message event having
\* attributes called name and trace.parent_name.
C14_Witness ==
    /\ Len(sent) = 3
    /\ sent[1].kind = "span_event"
    /\ sds[1].Name = "/foo"
    /\ {"name", "trace.parent_name"} \subseteq KeysOf(OwnAttributes(sent[1]))
    /\ LastRegistering(opts, "trace.parent_name") # 0
    /\ sds[1].Resource.present

\* The fields of a link record r that the exporter sets.
LinkFixedFields(r) ==
    LET data == sds[r.span]
        spanLink == data.Links[r.idx]
    IN  /\ Carries(r, "trace.trace_id", getHoneycombTraceID(data.SpanContext.TraceID))
        /\ Carries(r, "trace.parent_id", HexEncode(data.SpanContext.SpanID))
        /\ Carries(r, "trace.link.trace_id", getHoneycombTraceID(spanLink.TraceID))
        /\ Carries(r, "trace.link.span_id", HexEncode(spanLink.SpanID))
        /\ Carries(r, "meta.annotation_type", "link")

\* C15 as stated: every link record carries trace.trace_id = the codec form
\* of the span's TraceID, trace.parent_id = the span's SpanID (the primary
\* record's trace.span_id), trace.link.trace_id = the codec form of the
\* linked TraceID, trace.link.span_id = the hex form of the linked SpanID
\* and meta.annotation_type = "link", whatever attributes of the same names
\* exist.
C15_AsStated ==
    \A p \in 1..Len(sent) :
        sent[p].kind = "link" =>
            /\ LinkFixedFields(sent[p])
            /\ \A q \in PrimaryOf(sent[p]) :
                   sent[q].data["trace.span_id"] = sent[p].data["trace.parent_id"]

\* C15: every link record carries trace.trace_id = the codec form of the
\* span's TraceID, trace.parent_id = the span's SpanID, trace.link.trace_id
\* = the codec form of the linked TraceID, trace.link.span_id = the hex form
\* of the linked SpanID and meta.annotation_type = "link", whatever
\* attributes of the same names exist; the parent id is the primary record's
\* trace.span_id unless a span attribute named trace.span_id replaces it
\* there.
C15_LinkFixedFields ==
    \A p \in 1..Len(sent) :
        sent[p].kind = "link" =>
            /\ LinkFixedFields(sent[p])
            /\ \A q \in PrimaryOf(sent[p]) :
                   "trace.span_id" \notin KeysOf(sds[sent[p].span].Attributes)
                       => sent[q].data["trace.span_id"] = sent[p].data["trace.parent_id"]

\* The records of a span were sent, the link to a zero-padded trace id
\* having attributes called trace.link.trace_id and trace.link.span_id.
C15_Witness ==
    /\ Len(sent) = 3
    /\ sent[2].kind = "link"
    /\ sds[1].Links[1].TraceID = TraceIDPadded
    /\ {"trace.link.trace_id", "trace.link.span_id"} \subseteq KeysOf(OwnAttributes(sent[2]))
    /\ Len(sent[2].data["trace.link.trace_id"].s) = 16

\* C16 as stated: every link record carries ref_type with the value 0, and
\* no record sent carries ref_type = 1.
C16_AsStated ==
    \A p \in 1..Len(sent) :
        /\ sent[p].kind = "link" =>
               ("ref_type" \in DOMAIN sent[p].data /\ sent[p].data["ref_type"].n = 0)
        /\ "ref_type" \in DOMAIN sent[p].data => sent[p].data["ref_type"].n # 1

(***************************************************************************)
(* Claims about what NewExporter returns (checked under SpecOptions).      *)
(***************************************************************************)
\* Option o has a field entry that is refused: an empty name, or a nil
\* function for a dynamic field.
InvalidFieldOption(o) ==
    CASE o.kind = "WithField" -> o.name = ""
      [] o.kind = "WithFields" -> "" \in DOMAIN o.m
      [] o.kind = "WithDynamicField" -> o.name = "" \/ o.value = NIL
      [] o.kind = "WithDynamicFields" ->
            "" \in DOMAIN o.m \/ \E k \in DOMAIN o.m : o.m[k] = NIL
      [] OTHER -> FALSE

\* Option o is refused for another reason: an empty dataset name, API URL
\* or user agent addendum.
InvalidOtherOption(o) ==
    o.kind \in {"TargetingDataset", "WithAPIURL", "WithUserAgentAddendum"} /\ o.name = ""

\* NewExporter has returned an error and a nil exporter, and no client exists.
ReturnedError == pc = "failed" /\ newErr # NIL /\ exporter = NoExporter /\ clients = <<>>

RegistrationsOf(f) ==
    {k \in DOMAIN exporter.client.dynFields : exporter.client.dynFields[k].s = f}

\* The place of the record sent at position p among the events built: the
\* primary event of a snapshot is built before the snapshot's other events
\* and sent after them.
BuildIndex(p) ==
    IF sent[p].kind = "span"
    THEN p - (NumEvents(sent[p].span) + NumLinks(sent[p].span))
    ELSE p + 1

\* C18: each registered dynamic-field function is invoked exactly once for
\* every record built (1 + N + M times by the exportSpan call of a snapshot
\* with N message events and M links), the value on each record is the
\* result of the invocation made for that record, and a static field has
\* on every record the value it was registered with.
C18_DynamicFieldInvocations ==
    /\ \A f \in DynFuncs :
           dynCalls[f] = Built * Cardinality(RegistrationsOf(f))
    /\ \A j \in 1..Len(sds) :
           Exported(j) =>
               \A f \in DynFuncs :
                   dynCalls[f] >= (1 + NumEvents(j) + NumLinks(j)) * Cardinality(RegistrationsOf(f))
    /\ pc = "done" =>
          \A f \in DynFuncs :
              dynCalls[f] = (1 + NumEvents(1) + NumLinks(1)) * Cardinality(RegistrationsOf(f))
    /\ \A p \in 1..Len(sent) :
           /\ \A k \in (DOMAIN exporter.client.dynFields) \ Overriding(sent[p]) :
                  /\ k \in DOMAIN sent[p].data
                  /\ sent[p].data[k] = DynValue(exporter.client.dynFields[k], BuildIndex(p))
           /\ \A k \in (DOMAIN exporter.client.data) \ Overriding(sent[p]) :
                  /\ k \in DOMAIN sent[p].data
                  /\ sent[p].data[k] = exporter.client.data[k]
                  /\ sent[p].data[k] = Registered(opts[LastRegistering(opts, k)], k)

\* The three records of the snapshot were sent, the message-event record and
\* the link record carrying different values of one dynamic field, and its
\* function was invoked three times.
C18_Witness ==
    /\ pc = "done"
    /\ Len(sent) = 3
    /\ \E k \in DOMAIN exporter.client.dynFields :
          /\ k \in DOMAIN sent[1].data
          /\ k \in DOMAIN sent[2].data
          /\ sent[1].data[k].t = "dyn"
          /\ sent[2].data[k].t = "dyn"
          /\ sent[1].data[k] # sent[2].data[k]
          /\ Cardinality(RegistrationsOf(exporter.client.dynFields[k].s)) = 1
          /\ dynCalls[exporter.client.dynFields[k].s] = 3

(***************************************************************************)
(* Claims about concurrent calls of ExportSpans (checked under             *)
(* SpecThreads).                                                           *)
(***************************************************************************)
\* The records that exporting snapshot j of goroutine t's batch hands to the
\* sender when nothing else runs: who they belong to.
SequentialKeys(t) ==
    UNION {{<<t, j, "span", 0>>}
             \cup {<<t, j, "span_event", i>> : i \in 1..Len(threads[t].sds[j].MessageEvents)}
             \cup {<<t, j, "link", i>> : i \in 1..Len(threads[t].sds[j].Links)}
           : j \in 1..Len(threads[t].sds)}

\* ... and what the record holds when it is the n-th event built.
SequentialRecord(key, n) ==
    LET data == threads[key[1]].sds[key[2]]
    IN  CASE key[3] = "span" ->
                PrimaryEventFinished(
                    PrimaryEventBegun(exporter.client, n, data, exporter.serviceName), data)
          [] key[3] = "span_event" ->
                MessageEventRecord(exporter.client, n, data, exporter.serviceName,
                                   data.MessageEvents[key[4]])
          [] key[3] = "link" ->
                LinkRecord(exporter.client, n, data, exporter.serviceName, data.Links[key[4]])

KeyOf(r) == <<r.thread, r.span, r.kind, r.idx>>

AllDone == \A t \in DOMAIN threads : threads[t].pc = "done"

AllKeys == UNION {SequentialKeys(t) : t \in DOMAIN threads}

\* Number of events the export of the first j snapshots of goroutine t builds.
RECURSIVE BuiltUpTo(_, _)
BuiltUpTo(t, j) ==
    IF j = 0
    THEN 0
    ELSE BuiltUpTo(t, j - 1)
           + 1 + Len(threads[t].sds[j].MessageEvents) + Len(threads[t].sds[j].Links)

\* The place of a record among the events built when the calls run one
\* after another, the call of goroutine t0 first: a snapshot's primary
\* event is built first, then its message-event records, then its link
\* records.
SequentialIndex(key, t0) ==
    (IF key[1] = t0 THEN 0 ELSE BuiltUpTo(t0, Len(threads[t0].sds)))
      + BuiltUpTo(key[1], key[2] - 1)
      + (CASE key[3] = "span" -> 1
           [] key[3] = "span_event" -> 1 + key[4]
           [] key[3] = "link" ->
                 1 + Len(threads[key[1]].sds[key[2]].MessageEvents) + key[4])

\* What the sender gets of a record.
Handed(r) == [Timestamp |-> r.Timestamp, data |-> r.data]

\* A record without the values of the dynamic fields.
StaticPart(r) ==
    [Timestamp |-> r.Timestamp,
     data |-> Restrict(r.data, (DOMAIN r.data) \ (DOMAIN exporter.client.dynFields))]

\* The n-th invocation of the functions made the dynamic values of record r.
InvocationOf(r, n) ==
    \A k \in DOMAIN exporter.client.dynFields :
        /\ k \in DOMAIN r.data
        /\ r.data[k] = DynValue(exporter.client.dynFields[k], n)

\* C19 as stated: when all concurrent calls have returned, the records
\* handed to the sender are, as a multiset, those of running the calls one
\* after another.
C19_AsStated ==
    AllDone =>
        \E t0 \in DOMAIN threads :
            /\ Len(sent) = Cardinality(AllKeys)
            /\ \A key \in AllKeys :
                  LET r == Handed(SequentialRecord(key, SequentialIndex(key, t0)))
                  IN  Cardinality({p \in 1..Len(sent) : Handed(sent[p]) = r})
                        = Cardinality({k \in AllKeys :
                             Handed(SequentialRecord(k, SequentialIndex(k, t0))) = r})

\* C19: when goroutines run ExportSpans concurrently on one exporter, each
\* on its own snapshots, then in every interleaving every record handed to
\* the sender is a record of the sequential run of one of the calls, with
\* the fields of that one snapshot only, up to the values of the exporter's
\* dynamic fields: these are the results of one invocation of the functions
\* made for that record alone, in the order in which the goroutines built
\* their events. No record is handed over twice, and when all calls have
\* returned none is missing.
C19_ConcurrentExport ==
    /\ \A p \in 1..Len(sent) :
           /\ KeyOf(sent[p]) \in SequentialKeys(sent[p].thread)
           /\ StaticPart(sent[p]) = StaticPart(SequentialRecord(KeyOf(sent[p]), 1))
           /\ \E n \in 1..BuiltByThreads :
                  /\ InvocationOf(sent[p], n)
                  /\ DOMAIN exporter.client.dynFields # {} =>
                        \A q \in 1..Len(sent) : InvocationOf(sent[q], n) => q = p
    /\ \A p, q \in 1..Len(sent) : KeyOf(sent[p]) = KeyOf(sent[q]) => p = q
    /\ AllDone =>
          \A t \in DOMAIN threads :
              /\ threads[t].ret = NIL
              /\ \A key \in SequentialKeys(t) : \E p \in 1..Len(sent) : KeyOf(sent[p]) = key

\* Both calls have returned on an exporter with a dynamic field, and the
\* sender got a record of the second goroutine between two records of the
\* first.
C19_Witness ==
    /\ AllDone
    /\ DOMAIN exporter.client.dynFields # {}
    /\ \E p, q, r \in 1..Len(sent) :
          /\ p < q
          /\ q < r
          /\ sent[p].thread = "t1"
          /\ sent[q].thread = "t2"
          /\ sent[r].thread = "t1"

(***************************************************************************)
(* Claims about two exporters in one process (checked under SpecTwo).      *)
(***************************************************************************)
\* C20: constructing a second exporter leaves the first exporter's
\* configuration unchanged, and NewExporter writes no process-wide state
\* shared between exporters: once the process holds a first exporter and
\* calls NewExporter again, that exporter's client is the one its
\* construction made, and the process-wide user-agent addition is what it
\* was when the first exporter was returned.
C20_AsStated ==
    first # NoExporter =>
        /\ first.client = clients[1]
        /\ UserAgentAddition = first.client.UserAgentAddition

(***************************************************************************)
(* Claims about RunErrorLogger and Shutdown (checked under SpecLogger).    *)
(***************************************************************************)
ToldToStop == ctx.done \/ responses.closed

\* C21: RunErrorLogger returns if and only if its context has been
\* canceled or the response channel has been closed: it has never returned
\* while neither has happened, and a running RunErrorLogger for which
\* either has happened eventually returns.
C21_RunErrorLoggerReturns ==
    /\ [](logger.pc = "returned" => ToldToStop)
    /\ ((logger.pc = "select" /\ ToldToStop) ~> (logger.pc = "returned"))

\* RunErrorLogger returned on the closing of the channel alone, after it
\* took a response from it.
C21_Witness ==
    /\ logger.pc = "returned"
    /\ ~ctx.done
    /\ responses.closed
    /\ responses.put # <<>>
    /\ responses.queue = <<>>

\* The responses RunErrorLogger took from the channel, and the errors among
\* a sequence of responses.
Consumed == SubSeq(responses.put, 1, Len(responses.put) - Len(responses.queue))
ResponseErrors(rs) == SelectSeq(rs, LAMBDA r : r.Err # NIL)

\* The calls of the hook that RunErrorLogger made: the others report the
\* error of a send call.
LoggerCalls == SelectSeq(hookCalls, LAMBDA c : c.err.s # "send")

\* The hook was called once, in arrival order, for every response taken
\* whose Err is non-nil, and for no other.
ReportedInOrder ==
    /\ Len(LoggerCalls) = Len(ResponseErrors(Consumed))
    /\ \A i \in 1..Len(LoggerCalls) :
          /\ LoggerCalls[i].err = ResponseErrors(Consumed)[i].Err
          /\ LoggerCalls[i].hook = exporter.onError

\* The responses the channel was given before cancellation or shutdown:
\* nothing is put after the channel is closed.
PutBeforeStop == IF ctx.done THEN ctx.seen ELSE Len(responses.put)

\* C29 as stated: moreover every error response put on the channel before
\* cancellation or shutdown has been reported when RunErrorLogger has
\* returned.
C29_AsStated ==
    /\ ReportedInOrder
    /\ logger.pc = "returned" =>
          \A i \in 1..PutBeforeStop :
              responses.put[i].Err # NIL => i <= Len(Consumed)

\* C29: RunErrorLogger calls the error hook exactly once, in arrival order,
\* for every response it takes from the channel whose Err is non-nil, and
\* never for a response whose Err is nil; when it has returned and the
\* context is not canceled, it has taken every response the channel was
\* given, so every error response was reported.
C29_ErrorsReported ==
    /\ ReportedInOrder
    /\ (logger.pc = "returned" /\ ~ctx.done) => responses.queue = <<>>

\* RunErrorLogger returned after shutdown with the context live, having
\* reported an error response and passed over a response without error.
C29_Witness ==
    /\ logger.pc = "returned"
    /\ ~ctx.done
    /\ Len(LoggerCalls) >= 1
    /\ Len(Consumed) > Len(LoggerCalls)

\* NewExporter has returned an exporter.
Constructed == pc \notin {"start", "options", "failed"}

\* C30: once NewExporter has returned an exporter, no step of ExportSpans,
\* RunErrorLogger or Shutdown changes the exporter's static fields, its
\* dynamic fields, its service name or its error hook, and no step of
\* ExportSpans changes the snapshots it was given.
C30_ReadOnlyAfterConstruction ==
    [][Constructed =>
          /\ exporter'.client.data = exporter.client.data
          /\ exporter'.client.dynFields = exporter.client.dynFields
          /\ exporter'.serviceName = exporter.serviceName
          /\ exporter'.onError = exporter.onError
          /\ sds' = sds]_vars

\* ExportSpans of an exporter with a service name, a static and a dynamic
\* field has returned after three sends, the channel is closed and
\* RunErrorLogger has called the hook and returned.
C30_Witness ==
    /\ pc = "done"
    /\ "a" \in DOMAIN exporter.client.data
    /\ "b" \in DOMAIN exporter.client.dynFields
    /\ exporter.serviceName = "svc"
    /\ Len(sent) = 3
    /\ responses.closed
    /\ logger.pc = "returned"
    /\ LoggerCalls # <<>>

(***************************************************************************)
(* Claims about identifiers of other lengths (checked under SpecCalls).    *)
(***************************************************************************)
\* C28 as stated: for an identifier whose length is neither 8 nor 16 bytes
\* the display form is the hex encoding of all of its bytes.
C28_AsStated ==
    (result # <<>> /\ Len(arg) \notin {traceIDShortLength, traceIDLongLength}) =>
        /\ Len(result[1]) = 2 * Len(arg)
        /\ HexDecode(result[1]) = arg

\* C28: for an identifier of fewer than 8 bytes the display form is the hex
\* encoding of all of its bytes; for an identifier of more than 8 bytes
\* other than 16 it is the hex encoding of its first 8 bytes, and the bytes
\* after them do not show.
C28_OtherLengths ==
    (result # <<>> /\ Len(arg) \notin {traceIDShortLength, traceIDLongLength}) =>
        IF Len(arg) < traceIDShortLength
        THEN HexDecode(result[1]) = arg
        ELSE /\ Len(result[1]) = 2 * traceIDShortLength
             /\ HexDecode(result[1]) = SubSeq(arg, 1, traceIDShortLength)

\* The codec has returned for an identifier of 9 bytes whose last byte is
\* not zero.
C28_Witness ==
    /\ result # <<>>
    /\ Len(arg) = 9
    /\ arg[9] # 0
    /\ arg[1] # arg[9]

(***************************************************************************)
(* Claims about what wins on a record (checked under SpecFields).          *)
(***************************************************************************)
StructNames ==
    {"trace.trace_id", "trace.span_id", "name", "duration_ms", "trace.parent_id",
     "has_remote_parent", "error", "service_name"}

\* C26: on the primary record a span attribute whose key is the name of a
\* canonical field has replaced the canonical value, while status.code and
\* status.message are always present and are the snapshot's StatusCode and
\* StatusMessage, whoever else names a field status.code or status.message.
C26_AttributesThenStatus ==
    \A p \in 1..Len(sent) :
        sent[p].kind = "span" =>
            LET data == sds[sent[p].span]
                rec == sent[p].data
            IN  /\ \A k \in StructNames \cap KeysOf(data.Attributes) :
                       /\ k \in DOMAIN rec
                       /\ rec[k] = LastValue(data.Attributes, k)
                /\ "status.code" \in DOMAIN rec
                /\ rec["status.code"] = Int32(data.StatusCode)
                /\ "status.message" \in DOMAIN rec
                /\ rec["status.message"] = String(data.StatusMessage)

\* The primary record of a failed span with attributes name and
\* status.code and a resource attribute status.code, sent by an exporter
\* with a field status.code: the name is the attribute's, the status code
\* the snapshot's.
C26_Witness ==
    /\ pc = "done"
    /\ Len(sent) = 1
    /\ KeysOf(sds[1].Attributes) = {"name", "status.code"}
    /\ sds[1].Resource.present
    /\ sds[1].StatusCode = codesError
    /\ "status.code" \in DOMAIN exporter.client.data
    /\ sent[1].data["name"] = String("attribute")
    /\ sent[1].data["status.code"] = Int32(codesError)

\* The attributes of the span, message event or link that record r is for.
AttributesOf(r) ==
    CASE r.kind = "span" -> sds[r.span].Attributes
      [] r.kind = "span_event" -> sds[r.span].MessageEvents[r.idx].Attributes
      [] r.kind = "link" -> sds[r.span].Links[r.idx].Attributes

\* C27: with a non-empty service name configured, every record (primary,
\* message-event and link) whose span, event or link has no attribute
\* service_name carries service_name equal to the configured name, also
\* when the resource or an exporter field names service_name; with no
\* service name configured, such a record has the resource's service_name
\* if the resource has one, else the exporter field's if there is one, and
\* otherwise no service_name at all.
C27_ServiceName ==
    \A p \in 1..Len(sent) :
        LET data == sds[sent[p].span]
            rec == sent[p].data
        IN  "service_name" \notin KeysOf(AttributesOf(sent[p])) =>
                IF exporter.serviceName # ""
                THEN /\ "service_name" \in DOMAIN rec
                     /\ rec["service_name"] = String(exporter.serviceName)
                ELSE IF data.Resource.present /\ "service_name" \in KeysOf(data.Resource.attrs)
                THEN /\ "service_name" \in DOMAIN rec
                     /\ rec["service_name"] = LastValue(data.Resource.attrs, "service_name")
                ELSE IF "service_name" \in DOMAIN exporter.client.data
                THEN /\ "service_name" \in DOMAIN rec
                     /\ rec["service_name"] = exporter.client.data["service_name"]
                ELSE IF "service_name" \in DOMAIN exporter.client.dynFields
                THEN /\ "service_name" \in DOMAIN rec
                     /\ rec["service_name"].t = "dyn"
                ELSE "service_name" \notin DOMAIN rec

\* The three records of a snapshot whose resource names service_name and
\* whose span attributes name it too, sent by an exporter with the service
\* name svc and a static field service_name: the message-event and link
\* records carry svc, the primary record the span attribute.
C27_Witness ==
    /\ pc = "done"
    /\ Len(sent) = 3
    /\ exporter.serviceName = "svc"
    /\ "service_name" \in DOMAIN exporter.client.data
    /\ sds[1].Resource.present
    /\ "service_name" \in KeysOf(sds[1].Resource.attrs)
    /\ "service_name" \in KeysOf(sds[1].Attributes)
    /\ sent[1].data["service_name"] = String("svc")
    /\ sent[2].data["service_name"] = String("svc")
    /\ sent[3].data["service_name"] = String("span")


(***************************************************************************)
(* Claims about the decoder of wire spans (checked under SpecDecode).      *)
(***************************************************************************)
\* C22: OCProtoSpanToOTelSpanData called with a nil wire span returns a
\* non-nil error and a nil snapshot; called with any non-nil wire span, the
\* one with every field absent included, it returns a nil error and a
\* non-nil snapshot.
C22_NilSpanRejected ==
    \A i \in 1..Len(decoded) :
        IF wire[i].isNil
        THEN decoded[i].err # NIL /\ decoded[i].spanData.isNil
        ELSE decoded[i].err = NIL /\ ~decoded[i].spanData.isNil

C22_Witness ==
    /\ Len(decoded) = 2
    /\ wire[1] = NilSpan
    /\ wire[2] = EmptySpan
    /\ decoded[1].err = Error("expected a non-nil span")
    /\ decoded[1].spanData.isNil
    /\ decoded[2].err = NIL
    /\ ~decoded[2].spanData.isNil
    /\ decoded[2].spanData.SpanContext = spanContext(<<>>, <<>>)

\* The keys of an attribute map whose value carries one of the four
\* variants the decoder recognizes.
Recognized(attributes) ==
    {k \in DOMAIN attributes.AttributeMap :
        attributes.AttributeMap[k].t \in {"StringValue", "BoolValue", "IntValue", "DoubleValue"}}

\* C23: an entry of the attribute map whose value carries none of the four
\* recognized variants is dropped: the decoded attributes have no element
\* for its key, and as many elements as the map has recognized entries.
C23_AsStated ==
    \A i \in 1..Len(decoded) :
        ~wire[i].isNil =>
            /\ Len(decoded[i].spanData.Attributes) = Cardinality(Recognized(wire[i].Attributes))
            /\ \A n \in 1..Len(decoded[i].spanData.Attributes) :
                   decoded[i].spanData.Attributes[n].Key \in Recognized(wire[i].Attributes)

AnnotationsOf(span) ==
    SelectSeq(span.TimeEvents.TimeEvent, LAMBDA te : te.variant = "Annotation")

====
